---- MODULE Spec2Model ----
(***************************************************************************)
(* SecuGenScanner (src/src/fingerprint.js): the device session, its        *)
(* capture state machine and the template matcher.                         *)
(*                                                                         *)
(* JavaScript runs one synchronous segment at a time: an action of this    *)
(* model is one API call up to its first real suspension (a USB transfer   *)
(* or a timer), or the completion of such a suspension followed by the     *)
(* code up to the next one.  An await on a promise that is already settled *)
(* is not a suspension point of the model.                                 *)
(***************************************************************************)
EXTENDS Integers, Sequences, FiniteSets, TLC

\* ---------------------------------------------------------------- bounds
NumCallers == 2
MaxPolls == 2
MaxOpens == 2
MaxStalls == 1
MaxChunks == 2
MaxMinutiae == 2
QualW == 3
QualH == 3
ExtractCalls == 2

Callers == 1..NumCallers

\* ------------------------------------------------------- program constants
ImageWidth == 260
ImageHeight == 300
ImageDpi == 500
BulkMaxAttempts == 50
BulkRequest == 16384
BulkAccept == 10000
ChunkSize == 4096
ControlAccept == 1000
DefaultMinQuality == 40
MinTemplateLen == 20
HeaderSize == 14
DigestSize == 16
DistanceThreshold == 20
AngleThreshold == 30
MatchThreshold == 60

ImageSize == ImageWidth * ImageHeight

Null == "null"
Dev == "dev"
Iface == "iface0"
EpIn == "ep_in"
EpOut == "ep_out"
\* the value Math.round yields on an undefined operand: no quality in 0..100
NaN == 0 - 1

Products == {"HAMSTER_PRO", "U20"}

VARIABLES
  scanner,   \* the fields of the SecuGenScanner singleton
  usb,       \* the libusb device: handle open, interface claimed, call counts
  pc,        \* per caller: where its pending API call is suspended
  op,        \* per caller: the API call it is in
  loc,       \* per caller: the locals of that call
  res,       \* per caller: what the call returned or threw
  connOK,    \* a connect() returned success and no disconnect() step ran since it was called
  limits,    \* the bounds of the run: callers, hardware and option variety (never changes)
  mt1, mt2,  \* the two arguments of match()
  mres,      \* the value match() returned
  codecIn,   \* the minutiae and image dimensions handed to the template encoder
  codecBytes, \* the template generateTemplate wrote for them
  codecOut,  \* what parseMinutiae returned for that template
  codecPc,   \* how far the encode / decode round trip has come
  qImage,    \* the image handed to calculateQuality
  qOut,      \* the scores the two calculateQuality implementations returned
  xImage,    \* the image handed to extractMinutiae
  xOut       \* what the successive extractMinutiae calls returned

vars == <<scanner, usb, pc, op, loc, res, connOK, limits, mt1, mt2, mres,
          codecIn, codecBytes, codecOut, codecPc, qImage, qOut, xImage, xOut>>
sessionVars == <<scanner, usb, pc, op, loc, res, connOK, limits>>
matchVars == <<mt1, mt2, mres>>
codecVars == <<codecIn, codecBytes, codecOut, codecPc>>
imageVars == <<qImage, qOut, xImage, xOut>>

\* constructor
NewScanner ==
  [device |-> Null, interface |-> Null, inEndpoint |-> Null, outEndpoint |-> Null,
   isConnected |-> FALSE, isCapturing |-> FALSE, productName |-> Null,
   useControlTransfer |-> FALSE]

NewUsb == [open |-> FALSE, claimed |-> FALSE, opens |-> 0]

\* the locals of a call; clean is bookkeeping for connOK: no disconnect() step
\* has run since this caller's connect() was called; asked is options.minQuality
\* as the caller gave it; found, opened and opens note whether connect() saw a
\* SecuGen device on the bus, how device.open() ended and how often it was
\* called; claimFailed and inited note that interface.claim() threw and that
\* initializeDevice() was entered; noAnswer notes that the segment this caller
\* ran last ended a checkFinger() that got no usable response and returned at
\* line 419; events lists the events this call has emitted, in order;
\* fingerDetected is the local of line 451; bulkFull
\* and ctrlEnough note that the bulk loop of captureImage ended with a whole
\* image and its control loop with more than ControlAccept bytes
NoLoc ==
  [minQuality |-> 0, asked |-> 0, polls |-> 0, fingerDetected |-> FALSE,
   attempts |-> 0, bytesRead |-> 0, bulkFull |-> FALSE, ctrlEnough |-> FALSE,
   quality |-> 0, imgLen |-> 0, imgSrc |-> Null, imgPlain |-> FALSE,
   found |-> FALSE, opened |-> Null, opens |-> 0,
   claimFailed |-> FALSE, inited |-> FALSE, noAnswer |-> FALSE,
   events |-> <<>>,
   out |-> Null, info |-> Null,
   clean |-> FALSE]

\* what a call returned; afterOK notes that connect() was called with connOK true;
\* quality and asked note the quality capture() computed and the
\* options.minQuality it was called with
NoRes == [kind |-> Null, info |-> Null, connected |-> FALSE, capturing |-> FALSE,
          afterOK |-> FALSE, quality |-> 0, asked |-> 0,
          imgSrc |-> Null, imgLen |-> 0, imgPlain |-> FALSE,
          bulkFull |-> FALSE, ctrlEnough |-> FALSE,
          found |-> FALSE, opened |-> Null, opens |-> 0,
          claimFailed |-> FALSE, inited |-> FALSE, noAnswer |-> FALSE,
          events |-> <<>>]

Result(kind) == [NoRes EXCEPT !.kind = kind]

\* the configuration one caller's segment works on
CfgOf(p) == [sc |-> scanner, usb |-> usb, pc |-> pc[p], op |-> op[p],
             loc |-> [loc[p] EXCEPT !.noAnswer = FALSE], res |-> res[p],
             connOK |-> connOK, throwsOn |-> limits.throwsOn,
             maxPolls |-> limits.maxPolls]

\* the call settles with r; its locals are gone
Finish(c, r) == [c EXCEPT !.pc = "done", !.res = r, !.loc = NoLoc]

\* a USB transfer is issued and the caller waits for its callback
Suspend(c, at) == [c EXCEPT !.pc = at]

\* the caller waits for a timer
Sleep(c, at) == [c EXCEPT !.pc = at]

\* --------------------------------------------------------------- transfers
\* controlTransfer: with no device the promise rejects at once, otherwise the
\* transfer is issued and the caller is suspended until its callback runs.
CanControl(c) == c.sc.device # Null

\* setLED: skipped when not connected or no device; errors are swallowed
LedSends(c) == c.sc.isConnected /\ c.sc.device # Null

\* ------------------------------------------------------------------ status
NullInfo == [isNull |-> TRUE, productName |-> Null, communicationMode |-> Null]

\* getStatus deriving connected from the device reference
getStatusFromDevice(sc) ==
  [connected |-> sc.device # Null,
   capturing |-> sc.isCapturing,
   deviceInfo |-> IF sc.device # Null
                  THEN [isNull |-> FALSE, productName |-> sc.productName,
                        communicationMode |-> IF sc.useControlTransfer THEN "control" ELSE "bulk"]
                  ELSE NullInfo]

\* lines 921-935
getStatus(sc) ==
  [connected |-> sc.isConnected,
   capturing |-> sc.isCapturing,
   deviceInfo |-> IF sc.device # Null
                  THEN [isNull |-> FALSE, productName |-> sc.productName,
                        communicationMode |-> IF sc.useControlTransfer THEN "control" ELSE "bulk"]
                  ELSE NullInfo]

StatusResult(sc) ==
  [NoRes EXCEPT !.kind = "status",
                !.connected = getStatus(sc).connected,
                !.capturing = getStatus(sc).capturing,
                !.info = getStatus(sc).deviceInfo.productName]

\* -------------------------------------------------------------- disconnect
\* lines 948-968: release and close inside their own try/catch, then the
\* references are cleared whatever happened.
\* the teardown with the clearing inside the try block and no inner catch
DisconnectTeardownUnguarded(c, releaseThrows, closeThrows) ==
  IF (c.sc.interface # Null /\ releaseThrows) \/ (c.sc.device # Null /\ closeThrows)
  THEN Finish([c EXCEPT !.connOK = FALSE], Result("disconnected"))
  ELSE Finish([c EXCEPT !.sc = [c.sc EXCEPT !.device = Null, !.interface = Null,
                                            !.inEndpoint = Null, !.outEndpoint = Null,
                                            !.isConnected = FALSE, !.productName = Null],
                        !.usb = [c.usb EXCEPT !.open = FALSE, !.claimed = FALSE],
                        !.connOK = FALSE],
              Result("disconnected"))

DisconnectTeardown(c, releaseThrows, closeThrows) ==
  LET u1 == IF c.sc.interface # Null /\ ~releaseThrows
            THEN [c.usb EXCEPT !.claimed = FALSE] ELSE c.usb
      u2 == IF c.sc.device # Null /\ ~closeThrows
            THEN [u1 EXCEPT !.open = FALSE, !.claimed = FALSE] ELSE u1
      s1 == [c.sc EXCEPT !.device = Null, !.interface = Null, !.inEndpoint = Null,
                         !.outEndpoint = Null, !.isConnected = FALSE, !.productName = Null]
  IN Finish([c EXCEPT !.sc = s1, !.usb = u2, !.connOK = FALSE], Result("disconnected"))

\* lines 940-947: LED off first when connected
disconnect(c, releaseThrows, closeThrows) ==
  IF c.sc.isConnected /\ LedSends(c)
  THEN Suspend([c EXCEPT !.connOK = FALSE], "disc_led")
  ELSE DisconnectTeardown(c, releaseThrows, closeThrows)

\* ----------------------------------------------------------------- capture
\* emit (lines 84-88): every handler registered for the event is called; the
\* call throws when a handler does
emit(c, event) == [c EXCEPT !.loc.events = Append(@, event)]

HandlerThrows(c, event) == event \in c.throwsOn

\* finally (line 508), then the call returns or throws `out`
captureSettle(c, out) ==
  Finish([c EXCEPT !.sc.isCapturing = FALSE],
         [Result(out) EXCEPT !.quality = c.loc.quality, !.asked = c.loc.asked,
                             !.imgSrc = c.loc.imgSrc, !.imgLen = c.loc.imgLen,
                             !.imgPlain = c.loc.imgPlain,
                             !.bulkFull = c.loc.bulkFull,
                             !.ctrlEnough = c.loc.ctrlEnough,
                             !.noAnswer = c.loc.noAnswer,
                             !.events = c.loc.events])

\* line 505: captureError is emitted in the catch block, after setLED(false)
captureFailed(c, out) ==
  LET c1 == emit(c, "captureError")
  IN captureSettle(c1, IF HandlerThrows(c, "captureError") THEN "handler_threw" ELSE out)

\* setLED(false) on the way out (line 485 and line 504); with no transfer to
\* wait for the call goes straight on to what follows it: on success line 498,
\* captureComplete, whose throwing handler lands the call in the catch block
\* and at a second setLED(false); on failure line 505
captureLedOff(c, out) ==
  IF LedSends(c)
  THEN Suspend([c EXCEPT !.loc.out = out,
                          !.loc.polls = IF out = "nofinger" THEN @ ELSE 0,
                          !.loc.attempts = 0, !.loc.bytesRead = 0], "cap_ledoff")
  ELSE IF out = "ok"
       THEN LET c1 == emit(c, "captureComplete")
            IN IF HandlerThrows(c, "captureComplete")
               THEN captureFailed(c1, "handler_threw")
               ELSE captureSettle(c1, "ok")
       ELSE captureFailed(c, out)

\* the LED_OFF transfer came back (lines 485-499 and 504-508)
captureDone(c, out) ==
  IF out = "ok"
  THEN LET c1 == emit(c, "captureComplete")
       IN IF HandlerThrows(c, "captureComplete")
          THEN captureLedOff(c1, "handler_threw")
          ELSE captureSettle(c1, "ok")
  ELSE captureFailed(c, out)

\* lines 476-486: quality of the acquired image against minQuality.  The
\* quality is what calculateQuality yields on the pixels read: NaN when its
\* edge loop (lines 718-725) reads past the end of the image, 0 when the
\* device sent the same value for every pixel (imgPlain), else e.quality.
gotImage(c, src, len, e) ==
  LET plain == e.plain /\ src # "synthetic"
      q == IF len < ImageSize - 1 THEN NaN ELSE IF plain THEN 0 ELSE e.quality
      c1 == [c EXCEPT !.loc.imgSrc = src, !.loc.imgLen = len, !.loc.quality = q,
                      !.loc.imgPlain = plain]
  IN IF q # NaN /\ q < c.loc.minQuality
     THEN captureLedOff(c1, "lowq")
     ELSE captureLedOff(c1, "ok")

\* line 609
generateSyntheticFingerprint(c, e) == gotImage(c, "synthetic", ImageSize, e)

\* lines 598-601
chunkEnd(c, e) ==
  LET c1 == [c EXCEPT !.loc.ctrlEnough = c.loc.bytesRead > ControlAccept]
  IN IF c.loc.bytesRead > ControlAccept
     THEN gotImage(c1, "control", c.loc.bytesRead, e)
     ELSE generateSyntheticFingerprint(c1, e)

\* lines 578-586: the next GET_IMAGE chunk
chunkLoop(c, e) ==
  IF c.loc.bytesRead < ImageSize /\ CanControl(c)
  THEN Suspend(c, "cap_chunk")
  ELSE chunkEnd(c, e)

\* lines 566-570: the CAPTURE_IMAGE command
controlCapture(c, e) ==
  IF CanControl(c)
  THEN Suspend([c EXCEPT !.loc.bytesRead = 0], "cap_cmd")
  ELSE generateSyntheticFingerprint(c, e)

\* the code after the bulk loop going on to the control transfers whatever
\* the loop read
bulkEndDiscards(c, e) ==
  controlCapture([c EXCEPT !.loc.bulkFull = c.loc.bytesRead >= ImageSize], e)

\* lines 552-559
bulkEnd(c, e) ==
  LET c1 == [c EXCEPT !.loc.bulkFull = c.loc.bytesRead >= ImageSize]
  IN IF c.loc.bytesRead > BulkAccept /\ c.loc.bytesRead >= ImageSize
     THEN gotImage(c1, "bulk", ImageSize, e)
     ELSE controlCapture(c1, e)

\* a bulk loop that goes on for as long as the image is incomplete
bulkLoopUncapped(c, e) ==
  IF c.loc.bytesRead < ImageSize
  THEN IF c.sc.inEndpoint # Null
       THEN Suspend([c EXCEPT !.loc.attempts = @ + 1], "cap_bulk")
       ELSE bulkEnd([c EXCEPT !.loc.attempts = @ + 1], e)
  ELSE bulkEnd(c, e)

\* lines 532-535: the next bulk read
bulkLoop(c, e) ==
  IF c.loc.bytesRead < ImageSize /\ c.loc.attempts < BulkMaxAttempts
  THEN IF c.sc.inEndpoint # Null
       THEN Suspend([c EXCEPT !.loc.attempts = @ + 1], "cap_bulk")
       ELSE bulkEnd([c EXCEPT !.loc.attempts = @ + 1], e)
  ELSE bulkEnd(c, e)

\* lines 515-530
captureImage(c, e) ==
  IF c.sc.inEndpoint # Null
  THEN bulkLoop([c EXCEPT !.loc.attempts = 0, !.loc.bytesRead = 0], e)
  ELSE controlCapture(c, e)

\* the loop of lines 455-463 leaving for the image whatever the poll answered
afterCheckAnyAnswer(c, detected, e) ==
  captureImage([c EXCEPT !.loc.fingerDetected = detected], e)

\* lines 457-473: what capture does with one poll's answer
afterCheck(c, detected, e) ==
  IF detected
  THEN LET c1 == emit([c EXCEPT !.loc.fingerDetected = TRUE], "fingerDetected")
       IN IF HandlerThrows(c, "fingerDetected")
          THEN captureLedOff(c1, "handler_threw")
          ELSE captureImage(c1, e)
  ELSE Sleep(c, "cap_sleep")

\* lines 397-399 and 409-411: the device answered, the first byte decides
answered(c, detected, e) == afterCheck([c EXCEPT !.loc.noAnswer = FALSE], detected, e)

\* a checkFinger() that reports no finger when the device gives no answer
simulatedBlocks(c, e) == afterCheck([c EXCEPT !.loc.noAnswer = TRUE], FALSE, e)

\* lines 417-419: no usable response, { detected: true, simulated: true }
simulated(c, e) == afterCheck([c EXCEPT !.loc.noAnswer = TRUE], TRUE, e)

\* lines 402-419: the control transfer failed
checkFingerFallback(c, e) ==
  IF c.sc.inEndpoint # Null
  THEN IF c.sc.useControlTransfer
       THEN IF CanControl(c) THEN Suspend(c, "cap_chk_cmd") ELSE simulated(c, e)
       ELSE IF c.sc.outEndpoint # Null THEN Suspend(c, "cap_chk_cmd")
            ELSE simulated(c, e)
  ELSE simulated(c, e)

\* lines 383-396
checkFinger(c, e) ==
  IF ~c.sc.isConnected THEN answered(c, FALSE, e)
  ELSE IF CanControl(c) THEN Suspend(c, "cap_check")
  ELSE checkFingerFallback(c, e)

\* lines 455-467: the loop head; e.elapsed says whether timeout ms have passed
fingerLoop(c, e) ==
  IF e.elapsed \/ c.loc.polls >= c.maxPolls
  THEN captureLedOff(c, "nofinger")
  ELSE checkFinger([c EXCEPT !.loc.polls = @ + 1], e)

\* lines 439-447
captureEnter(c, e) ==
  IF c.sc.isCapturing
  THEN Finish(c, Result("busy"))
  ELSE LET c1 == emit([c EXCEPT !.sc.isCapturing = TRUE], "captureStart")
       IN IF HandlerThrows(c, "captureStart")
          THEN Finish(c1, [Result("handler_threw") EXCEPT !.events = c1.loc.events])
          ELSE IF LedSends(c1) THEN Suspend(c1, "cap_ledon") ELSE fingerLoop(c1, e)

\* ----------------------------------------------------------------- connect
ConnectSucceeded(r) == r.kind \in {"connected", "already"}

\* capture() going on to its guard whatever the connect() it awaited returned
connectReturnUnchecked(c, r, e) ==
  LET c1 == [c EXCEPT !.connOK = IF ConnectSucceeded(r) THEN c.loc.clean ELSE c.connOK]
  IN IF c.op = "connect"
     THEN Finish(c1, [r EXCEPT !.found = c.loc.found, !.opened = c.loc.opened,
                               !.opens = c.loc.opens,
                               !.claimFailed = c.loc.claimFailed,
                               !.inited = c.loc.inited])
     ELSE captureEnter(c1, e)

\* connect() settles with r: returned to the caller, or to capture() which
\* awaited it and throws its error (lines 433-437)
connectReturn(c, r, e) ==
  LET c1 == [c EXCEPT !.connOK = IF ConnectSucceeded(r) THEN c.loc.clean ELSE c.connOK]
  IN IF c.op = "connect"
     THEN Finish(c1, [r EXCEPT !.found = c.loc.found, !.opened = c.loc.opened,
                               !.opens = c.loc.opens,
                               !.claimFailed = c.loc.claimFailed,
                               !.inited = c.loc.inited])
     ELSE IF ~ConnectSucceeded(r)
          THEN Finish(c1, [Result("connect_failed") EXCEPT !.info = r.kind])
          ELSE captureEnter(c1, e)

\* lines 216-222
connectSuccess(c, e) ==
  connectReturn(c, [NoRes EXCEPT !.kind = "connected", !.info = c.loc.info], e)

\* lines 209-215: reading this.device.deviceDescriptor throws when a
\* disconnect() has cleared this.device meanwhile (caught at line 224)
connectResult(c, e) ==
  IF c.sc.device = Null
  THEN connectReturn(c, Result("CONNECTION_ERROR"), e)
  ELSE LET c1 == [c EXCEPT !.loc.info = c.sc.productName]
       IN IF e.hasSerial THEN Suspend(c1, "conn_serial") ELSE connectSuccess(c1, e)

\* line 245: setLED(true) after a successful INIT_DEVICE
initLed(c, e) ==
  IF LedSends(c) THEN Suspend(c, "conn_led") ELSE connectResult(c, e)

\* lines 237-241
initializeDevice(c, e) ==
  LET c1 == [c EXCEPT !.loc.inited = TRUE]
  IN IF CanControl(c1) THEN Suspend(c1, "conn_init") ELSE connectResult(c1, e)

\* connect() in which a failed interface.claim() ends the call
connectClaimFatal(c, e) ==
  IF e.hasIface /\ e.claimThrows
  THEN connectReturn([c EXCEPT !.sc.interface = Iface, !.loc.claimFailed = TRUE],
                     [NoRes EXCEPT !.kind = "CONNECTION_ERROR"], e)
  ELSE LET s1 == IF e.hasIface
                 THEN [c.sc EXCEPT !.interface = Iface,
                                   !.inEndpoint = IF e.hasIn THEN EpIn ELSE @,
                                   !.outEndpoint = IF e.hasOut THEN EpOut ELSE @]
                 ELSE c.sc
           u1 == IF e.hasIface THEN [c.usb EXCEPT !.claimed = TRUE] ELSE c.usb
           s2 == [s1 EXCEPT !.useControlTransfer =
                               (s1.outEndpoint = Null \/ s1.productName = "HAMSTER_PRO"),
                            !.isConnected = TRUE]
       IN initializeDevice([c EXCEPT !.sc = s2, !.usb = u1], e)

\* a connect() that does not set isConnected before it waits for the device
connectOpenedUnmarked(c, e) ==
  LET s1 == IF e.hasIface
            THEN [c.sc EXCEPT !.interface = Iface,
                              !.inEndpoint = IF e.hasIn THEN EpIn ELSE @,
                              !.outEndpoint = IF e.hasOut THEN EpOut ELSE @]
            ELSE c.sc
      u1 == IF e.hasIface
            THEN [c.usb EXCEPT !.claimed = @ \/ ~e.claimThrows]
            ELSE c.usb
      s2 == [s1 EXCEPT !.useControlTransfer =
                          (s1.outEndpoint = Null \/ s1.productName = "HAMSTER_PRO")]
  IN initializeDevice([c EXCEPT !.sc = s2, !.usb = u1,
                                !.loc.claimFailed = e.hasIface /\ e.claimThrows], e)

\* lines 163-207: claim the interface, find the endpoints, choose the mode
connectOpened(c, e) ==
  LET s1 == IF e.hasIface
            THEN [c.sc EXCEPT !.interface = Iface,
                              !.inEndpoint = IF e.hasIn THEN EpIn ELSE @,
                              !.outEndpoint = IF e.hasOut THEN EpOut ELSE @]
            ELSE c.sc
      u1 == IF e.hasIface
            THEN [c.usb EXCEPT !.claimed = @ \/ ~e.claimThrows]
            ELSE c.usb
      s2 == [s1 EXCEPT !.useControlTransfer =
                          (s1.outEndpoint = Null \/ s1.productName = "HAMSTER_PRO"),
                       !.isConnected = TRUE]
  IN initializeDevice([c EXCEPT !.sc = s2, !.usb = u1,
                                !.loc.claimFailed = e.hasIface /\ e.claimThrows], e)

\* lines 146-161: device.open()
connectOpen(c, e) ==
  LET c1 == [c EXCEPT !.usb.opens = @ + 1, !.loc.opened = e.open, !.loc.opens = @ + 1]
  IN CASE e.open = "access" -> connectReturn(c1, Result("PERMISSION_DENIED"), e)
       [] e.open = "fail" -> connectReturn(c1, Result("CONNECTION_ERROR"), e)
       [] OTHER -> connectOpened([c1 EXCEPT !.usb.open = TRUE], e)

\* lines 114-144: look for the device, then open it
connectScan(c, e) ==
  LET c0 == [c EXCEPT !.loc.found = e.present]
      c1 == IF e.present
            THEN [c0 EXCEPT !.sc.device = Dev, !.sc.productName = e.product]
            ELSE c0
  IN IF c1.sc.device = Null
     THEN connectReturn(c1, Result("DEVICE_NOT_FOUND"), e)
     ELSE connectOpen(c1, e)

\* connect without the already-connected guard of lines 101-112
connectReopens(c, e) == connectScan([c EXCEPT !.loc.clean = TRUE], e)

\* lines 93-112
connect(c, e) ==
  LET c0 == [c EXCEPT !.loc.clean = TRUE]
  IN IF c0.sc.isConnected /\ c0.sc.device # Null
     THEN connectReturn(c0, [NoRes EXCEPT !.kind = "already", !.info = c0.sc.productName,
                                          !.afterOK = c.connOK], e)
     ELSE connectScan(c0, e)

\* lines 425-437
capture(c, e) ==
  LET c0 == [c EXCEPT !.loc.minQuality =
                         IF e.minQuality = 0 THEN DefaultMinQuality ELSE e.minQuality,
                      !.loc.asked = e.minQuality]
  IN IF ~c0.sc.isConnected THEN connect(c0, e) ELSE captureEnter(c0, e)

\* ---------------------------------------------------------------- templates
\* extractMinutiae returns at most this many minutiae (line 809)
MaxTemplateMinutiae == 128

Byte(n) == n % 256

\* Buffer.readUInt16BE / writeUInt16BE
ReadUInt16BE(bytes, offset) == bytes[offset + 1] * 256 + bytes[offset + 2]
WriteUInt16BE(n) == <<Byte(n \div 256), Byte(n)>>

\* Buffer.concat of the records, halving the list
RECURSIVE FlattenRange(_, _, _)
FlattenRange(seqs, lo, hi) ==
  IF lo > hi THEN <<>>
  ELSE IF lo = hi THEN seqs[lo]
  ELSE LET mid == (lo + hi) \div 2
       IN FlattenRange(seqs, lo, mid) \o FlattenRange(seqs, mid + 1, hi)

Flatten(seqs) == FlattenRange(seqs, 1, Len(seqs))

\* stands for the first 16 bytes of SHA-256 (line 765): a function of the bytes
\* that changes whenever one byte changes
RECURSIVE MixRange(_, _, _, _)
MixRange(bytes, k, lo, hi) ==
  IF lo > hi THEN 0
  ELSE IF lo = hi THEN (bytes[lo] + 7) * (((lo * k) % 251) + 1)
  ELSE LET mid == (lo + hi) \div 2
       IN (MixRange(bytes, k, lo, mid) + MixRange(bytes, k, mid + 1, hi)) % 65521

Mix(bytes, k) == (k + 31 * Len(bytes) + MixRange(bytes, k, 1, Len(bytes))) % 65521

Digest(bytes) == [i \in 1..DigestSize |-> Byte(Mix(bytes, i) + i * (Mix(bytes, i) \div 256))]

\* a generateTemplate that writes x and y low byte first
generateTemplateLittleEndian(minutiae, width, height, dpi) ==
  LET header == <<70, 77, 82, 0, 32, 50, 48, Byte(Len(minutiae)),
                  Byte(width \div 256), Byte(width),
                  Byte(height \div 256), Byte(height),
                  Byte(dpi \div 256), Byte(dpi)>>
      minutiaeData == Flatten([i \in 1..Len(minutiae) |->
                         <<Byte(minutiae[i].x), Byte(minutiae[i].x \div 256),
                           Byte(minutiae[i].y), Byte(minutiae[i].y \div 256),
                           Byte(minutiae[i].angle), Byte(minutiae[i].type)>>])
      templateData == header \o minutiaeData
  IN templateData \o Digest(templateData)

\* lines 745-767 for the minutiae extractMinutiae returned
generateTemplate(minutiae, width, height, dpi) ==
  LET header == <<70, 77, 82, 0, 32, 50, 48, Byte(Len(minutiae)),
                  Byte(width \div 256), Byte(width),
                  Byte(height \div 256), Byte(height),
                  Byte(dpi \div 256), Byte(dpi)>>
      minutiaeData == Flatten([i \in 1..Len(minutiae) |->
                         WriteUInt16BE(minutiae[i].x) \o WriteUInt16BE(minutiae[i].y)
                           \o <<Byte(minutiae[i].angle), Byte(minutiae[i].type)>>])
      templateData == header \o minutiaeData
  IN templateData \o Digest(templateData)

\* parseMinutiae with the loop bound one byte too strict: the last record is lost
parseMinutiaeDropsLast(template) ==
  LET count == IF Len(template) >= 8 THEN template[8] ELSE 0
      read == {i \in 0..(count - 1) :
                 HeaderSize + i * 6 + 6 < Len(template) - DigestSize}
  IN [k \in 1..Cardinality(read) |->
        LET offset == HeaderSize + (k - 1) * 6
        IN [x |-> ReadUInt16BE(template, offset),
            y |-> ReadUInt16BE(template, offset + 2),
            angle |-> template[offset + 5],
            type |-> template[offset + 6]]]

\* lines 900-916
parseMinutiae(template) ==
  LET count == IF Len(template) >= 8 THEN template[8] ELSE 0
      read == {i \in 0..(count - 1) :
                 HeaderSize + i * 6 + 5 < Len(template) - DigestSize}
  IN [k \in 1..Cardinality(read) |->
        LET offset == HeaderSize + (k - 1) * 6
        IN [x |-> ReadUInt16BE(template, offset),
            y |-> ReadUInt16BE(template, offset + 2),
            angle |-> template[offset + 5],
            type |-> template[offset + 6]]]

\* Buffer.toString('base64') (line 490): symbols 0..63, 64 is the padding '='
RECURSIVE Base64Encode(_)
Base64Encode(bytes) ==
  CASE Len(bytes) = 0 -> <<>>
    [] Len(bytes) = 1 ->
         <<bytes[1] \div 4, (bytes[1] % 4) * 16, 64, 64>>
    [] Len(bytes) = 2 ->
         <<bytes[1] \div 4, (bytes[1] % 4) * 16 + bytes[2] \div 16, (bytes[2] % 16) * 4, 64>>
    [] OTHER ->
         <<bytes[1] \div 4, (bytes[1] % 4) * 16 + bytes[2] \div 16,
           (bytes[2] % 16) * 4 + bytes[3] \div 64, bytes[3] % 64>>
           \o Base64Encode(SubSeq(bytes, 4, Len(bytes)))

\* Buffer.from(string, 'base64') (lines 854-855): decoding stops at the padding
RECURSIVE Base64Decode(_)
Base64Decode(chars) ==
  LET n == IF \E i \in 1..Len(chars) : chars[i] = 64
           THEN (CHOOSE i \in 1..Len(chars) :
                   chars[i] = 64 /\ \A j \in 1..(i - 1) : chars[j] # 64) - 1
           ELSE Len(chars)
  IN CASE n <= 1 -> <<>>
       [] n = 2 -> <<chars[1] * 4 + chars[2] \div 16>>
       [] n = 3 -> <<chars[1] * 4 + chars[2] \div 16,
                     (chars[2] % 16) * 16 + chars[3] \div 4>>
       [] OTHER -> <<chars[1] * 4 + chars[2] \div 16,
                     (chars[2] % 16) * 16 + chars[3] \div 4,
                     (chars[3] % 4) * 64 + chars[4]>>
                     \o Base64Decode(SubSeq(chars, 5, Len(chars)))

\* an argument of match(): a Buffer, a string, or anything else
BufferArg(bytes) == [kind |-> "buffer", data |-> bytes]
StringArg(chars) == [kind |-> "string", data |-> chars]
OtherArg == [kind |-> "other", data |-> <<>>]

NoMatchResult ==
  [kind |-> "none", match |-> FALSE, score |-> 0, matchedMinutiae |-> 0,
   totalMinutiae |-> 0, error |-> Null]

ErrorResult(message) == [NoMatchResult EXCEPT !.kind = "result", !.error = message]

Thrown(message) == [NoMatchResult EXCEPT !.kind = "threw", !.error = message]

\* lines 854-855: Buffer.from throws a TypeError on what is neither
ToBuffer(t) ==
  CASE t.kind = "buffer" -> [ok |-> TRUE, bytes |-> t.data]
    [] t.kind = "string" -> [ok |-> TRUE, bytes |-> Base64Decode(t.data)]
    [] OTHER -> [ok |-> FALSE, bytes |-> <<>>]

\* lines 868-880: the minutiae of A that have a partner in B
\* the test of line 875 with <= in place of <
CloseInclusive(m1, m2) ==
  LET dx == m1.x - m2.x
      dy == m1.y - m2.y
      angleDiff == IF m1.angle >= m2.angle THEN m1.angle - m2.angle ELSE m2.angle - m1.angle
  IN /\ dx * dx + dy * dy <= DistanceThreshold * DistanceThreshold
     /\ angleDiff <= AngleThreshold
     /\ m1.type = m2.type

\* lines 870-875: the test on a pair of minutiae
Close(m1, m2) ==
  LET dx == m1.x - m2.x
      dy == m1.y - m2.y
      angleDiff == IF m1.angle >= m2.angle THEN m1.angle - m2.angle ELSE m2.angle - m1.angle
  IN /\ dx * dx + dy * dy < DistanceThreshold * DistanceThreshold
     /\ angleDiff < AngleThreshold
     /\ m1.type = m2.type

\* a count in which a minutia of B that was taken as a partner is not offered
\* again: the minutiae of A from the i-th on, with the partners in used taken
RECURSIVE ConsumingCount(_, _, _, _)
ConsumingCount(minutiae1, minutiae2, i, used) ==
  IF i > Len(minutiae1) THEN 0
  ELSE LET free == {j \in 1..Len(minutiae2) :
                      j \notin used /\ Close(minutiae1[i], minutiae2[j])}
       IN IF free = {}
          THEN ConsumingCount(minutiae1, minutiae2, i + 1, used)
          ELSE LET j == CHOOSE k \in free : \A l \in free : k <= l
               IN 1 + ConsumingCount(minutiae1, minutiae2, i + 1, used \cup {j})

MatchedCountConsuming(minutiae1, minutiae2) ==
  ConsumingCount(minutiae1, minutiae2, 1, {})

\* lines 864-880: the loop over A with the inner loop over the whole of B
MatchedCount(minutiae1, minutiae2) ==
  Cardinality({i \in 1..Len(minutiae1) :
                 \E j \in 1..Len(minutiae2) : Close(minutiae1[i], minutiae2[j])})

Min(a, b) == IF a < b THEN a ELSE b

\* Math.round((matchedCount / maxPossible) * 100)
Score(matchedCount, maxPossible) ==
  IF maxPossible > 0
  THEN (200 * matchedCount + maxPossible) \div (2 * maxPossible)
  ELSE 0

\* the try block of match (lines 854-890)
matchTry(template1, template2) ==
  LET t1 == ToBuffer(template1)
      t2 == ToBuffer(template2)
  IN IF ~t1.ok \/ ~t2.ok THEN Thrown("TypeError")
     ELSE IF Len(t1.bytes) < MinTemplateLen \/ Len(t2.bytes) < MinTemplateLen
     THEN ErrorResult("Invalid template")
     ELSE LET minutiae1 == parseMinutiae(t1.bytes)
              minutiae2 == parseMinutiae(t2.bytes)
              matchedCount == MatchedCount(minutiae1, minutiae2)
              maxPossible == Min(Len(minutiae1), Len(minutiae2))
              score == Score(matchedCount, maxPossible)
          IN [kind |-> "result", match |-> score >= MatchThreshold, score |-> score,
              matchedMinutiae |-> matchedCount, totalMinutiae |-> maxPossible,
              error |-> Null]

\* lines 852-895: whatever the try block throws becomes an error result
match(template1, template2) ==
  LET r == matchTry(template1, template2)
  IN IF r.kind = "threw" THEN ErrorResult(r.error) ELSE r

\* ------------------------------------------------------------ match inputs
MinutiaPool ==
  {[x |-> 10, y |-> 10, angle |-> 0, type |-> 1],
   [x |-> 20, y |-> 10, angle |-> 20, type |-> 1],
   [x |-> 300, y |-> 10, angle |-> 0, type |-> 1],
   [x |-> 10, y |-> 10, angle |-> 40, type |-> 2],
   [x |-> 30, y |-> 10, angle |-> 0, type |-> 1],
   [x |-> 10, y |-> 10, angle |-> 30, type |-> 1],
   [x |-> 10, y |-> 10, angle |-> 250, type |-> 1]}

RECURSIVE SeqsUpTo(_, _)
SeqsUpTo(S, n) ==
  IF n = 0 THEN {<<>>}
  ELSE LET shorter == SeqsUpTo(S, n - 1)
       IN shorter \cup {Append(q, x) : q \in shorter, x \in S}

WellFormed == {generateTemplate(ms, ImageWidth, ImageHeight, 500) : ms \in SeqsUpTo(MinutiaPool, MaxMinutiae)}

\* blobs that are no output of generateTemplate: cut short, with a count byte
\* that promises more records than there are, or with one byte of a record
\* changed (x 10 to 11, x 10 to 266) under the old digest
Malformed ==
  LET one == generateTemplate(<<[x |-> 10, y |-> 10, angle |-> 0, type |-> 1]>>,
                              ImageWidth, ImageHeight, 500)
  IN {<<>>, SubSeq(one, 1, 7), SubSeq(one, 1, 19), SubSeq(one, 1, 20), SubSeq(one, 1, 35),
      [one EXCEPT ![8] = 255], [i \in 1..MinTemplateLen |-> 255],
      [one EXCEPT ![16] = 11], [one EXCEPT ![15] = 1]}

MatchArgs ==
  {BufferArg(b) : b \in WellFormed \cup Malformed}
  \cup {StringArg(Base64Encode(b)) : b \in Malformed}
  \cup {StringArg(Base64Encode(b)) : b \in {w \in WellFormed : Len(w) <= 2 * HeaderSize + 6 + 2}}
  \cup {OtherArg}

\* ------------------------------------------------------------ codec inputs

NoCodecIn == [minutiae |-> <<>>, width |-> 0, height |-> 0, dpi |-> 0]

\* nothing handed to the encoder
CodecIdle ==
  /\ codecIn = NoCodecIn
  /\ codecBytes = <<>>
  /\ codecOut = [minutiae |-> <<>>]
  /\ codecPc = "idle"

\* minutiae at the ends and in the middle of the field ranges
CodecPool ==
  {[x |-> 0, y |-> 0, angle |-> 0, type |-> 0],
   [x |-> 65535, y |-> 65535, angle |-> 255, type |-> 255],
   [x |-> 136, y |-> 24, angle |-> 128, type |-> 1],
   [x |-> 256, y |-> 255, angle |-> 1, type |-> 2]}

\* the longest list the encoder is given, all records different
FullList ==
  [i \in 1..MaxTemplateMinutiae |->
     [x |-> 512 * i - 1, y |-> 65536 - 512 * i, angle |-> 2 * i - 1, type |-> 256 - 2 * i]]

CodecDims ==
  {[width |-> ImageWidth, height |-> ImageHeight, dpi |-> 500],
   [width |-> 65535, height |-> 1, dpi |-> 256],
   [width |-> 255, height |-> 65535, dpi |-> 65535]}

CodecInputs ==
  {[minutiae |-> ms, width |-> d.width, height |-> d.height, dpi |-> d.dpi] :
     ms \in SeqsUpTo(CodecPool, MaxMinutiae) \cup {FullList}, d \in CodecDims}

\* ----------------------------------------------------------- image analysis
NoImage == [data |-> <<>>, width |-> 0, height |-> 0]

NoQualityOut == [coreDone |-> FALSE, core |-> 0, electronDone |-> FALSE, electron |-> 0]

NoSparseImage == [dark |-> {}, darkValue |-> 0, lightValue |-> 255, width |-> 0, height |-> 0]

NoExtractOut == [core |-> <<>>, electron |-> <<>>]

\* what one call of generateTemplate computed
Extracted(minutiae, template) == [minutiae |-> minutiae, template |-> template]

\* no image handed to the analyzer
ImageIdle ==
  /\ qImage = NoImage
  /\ qOut = NoQualityOut
  /\ xImage = NoSparseImage
  /\ xOut = NoExtractOut

\* the non-integer values of calculateQuality are carried in tenths, rounded down
Scale == 10

Max(a, b) == IF a > b THEN a ELSE b

\* Math.sqrt, rounded down, by bisection of lo..hi
RECURSIVE SqrtBetween(_, _, _)
SqrtBetween(n, lo, hi) ==
  IF lo >= hi THEN lo
  ELSE LET mid == (lo + hi + 1) \div 2
       IN IF mid * mid <= n THEN SqrtBetween(n, mid, hi) ELSE SqrtBetween(n, lo, mid - 1)

Sqrt(n) == SqrtBetween(n, 0, Min(n, 46340))

\* Math.round of a value in tenths
Round(tenths) == (tenths + Scale \div 2) \div Scale

RECURSIVE SumSeq(_)
SumSeq(q) == IF q = <<>> THEN 0 ELSE Head(q) + SumSeq(Tail(q))

\* imageData[idx], idx counted from 0
PixelAt(imageData, idx) == imageData[idx + 1]

\* lines 697-716: min, max, mean and standard deviation of the pixels
Contrast(imageData) ==
  LET pixels == {imageData[i] : i \in 1..Len(imageData)}
      min == CHOOSE m \in pixels \cup {255} : \A v \in pixels : m <= v
      max == CHOOSE m \in pixels \cup {0} : \A v \in pixels : m >= v
  IN max - min

StdDev(imageData) ==
  LET n == Len(imageData)
      mean == (SumSeq(imageData) * Scale) \div n
      variance == SumSeq([i \in 1..n |->
                            (imageData[i] * Scale - mean) * (imageData[i] * Scale - mean)])
                    \div n
  IN Sqrt(variance)

\* lines 718-727: gradient magnitude averaged over the interior pixels
AvgEdge(imageData, width, height) ==
  LET cols == width - 2
      rows == height - 2
      edgeSum == SumSeq([k \in 1..(cols * rows) |->
                    LET y == 1 + (k - 1) \div cols
                        x == 1 + ((k - 1) % cols)
                        idx == y * width + x
                        gx == PixelAt(imageData, idx + 1) - PixelAt(imageData, idx - 1)
                        gy == PixelAt(imageData, idx + width)
                                - PixelAt(imageData, idx - width)
                    IN Sqrt((gx * gx + gy * gy) * Scale * Scale)])
  IN edgeSum \div (cols * rows)

\* calculateQuality with neither the caps on the three scores nor the clamp
calculateQualityUnclamped(imageData, width, height) ==
  Round((Contrast(imageData) * Scale) \div 2 + StdDev(imageData) \div 2
          + AvgEdge(imageData, width, height) \div 3)

\* lines 694-735, for an image of width x height bytes
calculateQuality(imageData, width, height) ==
  LET contrastScore == Min((Contrast(imageData) * Scale) \div 2, 40 * Scale)
      sharpnessScore == Min(StdDev(imageData) \div 2, 30 * Scale)
      edgeScore == Min(AvgEdge(imageData, width, height) \div 3, 30 * Scale)
  IN Min(100, Max(0, Round(contrastScore + sharpnessScore + edgeScore)))

\* FingerprintScanner.calculateQuality (electron-app): a fixed edge score
calculateQualityElectron(imageData) ==
  LET contrastScore == Min((Contrast(imageData) * Scale) \div 2, 40 * Scale)
      sharpnessScore == Min(StdDev(imageData) \div 2, 30 * Scale)
      edgeScore == 30 * Scale
  IN Min(100, Max(0, Round(contrastScore + sharpnessScore + edgeScore)))

\* ------------------------------------------------------------------ minutiae
Threshold == 128
BlockSize == 16

\* the pixel data of a two-valued image: the pixels at the indices in dark have
\* darkValue, all others lightValue
Pixel(imageData, idx) ==
  IF idx \in imageData.dark THEN imageData.darkValue ELSE imageData.lightValue

\* imageData.length of such an image
Length(imageData) == imageData.width * imageData.height

\* lines 815-831
countNeighbors(imageData, x, y, width, height, threshold) ==
  Cardinality({d \in {<<0 - 1, 0 - 1>>, <<0, 0 - 1>>, <<1, 0 - 1>>, <<0 - 1, 0>>,
                      <<1, 0>>, <<0 - 1, 1>>, <<0, 1>>, <<1, 1>>} :
                 LET nx == x + d[1]
                     ny == y + d[2]
                 IN /\ nx >= 0 /\ nx < width /\ ny >= 0 /\ ny < height
                    /\ Pixel(imageData, ny * width + nx) < threshold})

\* Math.round(((Math.atan2(gy, gx) + PI) / (2 * PI)) * 255) for the gradients of
\* a two-valued image: each component is 0 or plus or minus the same step
AngleByte(gy, gx) ==
  CASE gy = 0 /\ gx >= 0 -> 128
    [] gy = 0 /\ gx < 0 -> 255
    [] gx = 0 /\ gy > 0 -> 191
    [] gx = 0 /\ gy < 0 -> 64
    [] gx = gy /\ gx > 0 -> 159
    [] gx = gy /\ gx < 0 -> 32
    [] gx = 0 - gy /\ gy > 0 -> 223
    [] gx = 0 - gy /\ gy < 0 -> 96

\* lines 836-847
calculateAngle(imageData, x, y, width, height) ==
  LET inside == x > 0 /\ x < width - 1 /\ y > 0 /\ y < height - 1
      idx == y * width + x
      gx == IF inside THEN Pixel(imageData, idx + 1) - Pixel(imageData, idx - 1) ELSE 0
      gy == IF inside THEN Pixel(imageData, idx + width) - Pixel(imageData, idx - width)
            ELSE 0
  IN AngleByte(gy, gx)

\* the blocks the loops of lines 778-779 visit, in the order they visit them
ScannedBlocks(width, height) ==
  LET rows == Max(0, (height \div BlockSize) - 2)
      cols == Max(0, (width \div BlockSize) - 2)
  IN [k \in 1..(rows * cols) |->
        [bx |-> 1 + ((k - 1) % cols), by |-> 1 + ((k - 1) \div cols)]]

\* lines 780-803: the minutiae pushed, in the order pushed, before the slice of
\* line 809 and without their angles
PushedMinutiae(imageData, width, height) ==
  LET blocks == ScannedBlocks(width, height)
      X(b) == b.bx * BlockSize + BlockSize \div 2
      Y(b) == b.by * BlockSize + BlockSize \div 2
      Pushes(b) ==
        /\ Y(b) * width + X(b) < Length(imageData)
        /\ Pixel(imageData, Y(b) * width + X(b)) < Threshold
        /\ countNeighbors(imageData, X(b), Y(b), width, height, Threshold) \in {1, 3}
      pushed == SelectSeq(blocks, Pushes)
  IN [n \in 1..Len(pushed) |->
        [x |-> X(pushed[n]), y |-> Y(pushed[n]),
         type |-> IF countNeighbors(imageData, X(pushed[n]), Y(pushed[n]), width, height,
                                    Threshold) = 1
                  THEN 1 ELSE 2]]

\* Array.slice(0, count)
Slice(list, count) == SubSeq(list, 1, Min(Len(list), count))

\* extractMinutiae without the slice of line 809
extractMinutiaeUnsliced(imageData, width, height) ==
  LET pushed == PushedMinutiae(imageData, width, height)
  IN [n \in 1..Len(pushed) |->
        [x |-> pushed[n].x, y |-> pushed[n].y,
         angle |-> calculateAngle(imageData, pushed[n].x, pushed[n].y, width, height),
         type |-> pushed[n].type]]

\* lines 773-810
extractMinutiae(imageData, width, height) ==
  LET pushed == PushedMinutiae(imageData, width, height)
  IN Slice([n \in 1..Len(pushed) |->
              [x |-> pushed[n].x, y |-> pushed[n].y,
               angle |-> calculateAngle(imageData, pushed[n].x, pushed[n].y, width, height),
               type |-> pushed[n].type]],
           MaxTemplateMinutiae)

\* FingerprintScanner.extractMinutiae (electron-app): the angle of the n-th
\* minutia is Math.floor(Math.random() * 256), here the n-th draw of the run
extractMinutiaeElectron(imageData, width, height, draws) ==
  LET pushed == PushedMinutiae(imageData, width, height)
  IN Slice([n \in 1..Len(pushed) |->
              [x |-> pushed[n].x, y |-> pushed[n].y,
               angle |-> (draws + 97 * n) % 256,
               type |-> pushed[n].type]],
           MaxTemplateMinutiae)

\* lines 740-768 on an image of the configured size
generateTemplateOf(imageData) ==
  LET minutiae == extractMinutiae(imageData, imageData.width, imageData.height)
  IN Extracted(minutiae,
               generateTemplate(minutiae, imageData.width, imageData.height, ImageDpi))

\* FingerprintScanner.generateTemplate (electron-app)
generateTemplateElectron(imageData, draws) ==
  LET minutiae == extractMinutiaeElectron(imageData, imageData.width, imageData.height, draws)
  IN Extracted(minutiae,
               generateTemplate(minutiae, imageData.width, imageData.height, ImageDpi))

\* what Math.random may give in a run: the first draw and a stride
Draws == {0, 1}

\* the dark pixels drawn around the centre of a block, as offsets from it
BlockKinds ==
  [none        |-> {},
   isolated    |-> {<<0, 0>>},
   endingRight |-> {<<0, 0>>, <<1, 0>>},
   endingUp    |-> {<<0, 0>>, <<0, 0 - 1>>},
   endingDiag  |-> {<<0, 0>>, <<1, 1>>},
   line        |-> {<<0, 0>>, <<0 - 1, 0>>, <<1, 0>>},
   fork        |-> {<<0, 0>>, <<0 - 1, 0 - 1>>, <<1, 0 - 1>>, <<0, 1>>},
   forkCorner  |-> {<<0, 0>>, <<0 - 1, 0>>, <<0, 0 - 1>>, <<1, 1>>},
   cross       |-> {<<0, 0>>, <<0 - 1, 0>>, <<1, 0>>, <<0, 0 - 1>>, <<0, 1>>},
   hollow      |-> {<<1, 0>>}]

KindOrder ==
  <<"endingRight", "fork", "line", "endingUp", "forkCorner", "none", "endingDiag",
    "fork", "isolated", "endingRight", "forkCorner", "hollow", "endingUp", "cross">>

\* every block of the image, the border blocks included
AllBlocks(width, height) ==
  {[bx |-> bx, by |-> by] : bx \in 0..((width \div BlockSize) - 1),
                            by \in 0..((height \div BlockSize) - 1)}

\* the image in which block b shows the kind kindOf[b]
Drawn(kindOf, darkValue, lightValue) ==
  [dark |-> UNION {{(b.by * BlockSize + BlockSize \div 2 + d[2]) * ImageWidth
                      + b.bx * BlockSize + BlockSize \div 2 + d[1] :
                      d \in BlockKinds[kindOf[b]]} : b \in DOMAIN kindOf},
   darkValue |-> darkValue, lightValue |-> lightValue,
   width |-> ImageWidth, height |-> ImageHeight]

\* images of the configured size: one kind in every block, kinds changing from
\* block to block, and few marked blocks in a light image
SparseImages ==
  LET blocks == AllBlocks(ImageWidth, ImageHeight)
      uniform == {Drawn([b \in blocks |-> k], 0, 255) : k \in DOMAIN BlockKinds}
      levels == {Drawn([b \in blocks |-> "endingRight"], v[1], v[2]) :
                   v \in {<<127, 128>>, <<128, 255>>, <<0, 127>>}}
      mixed == {Drawn([b \in blocks |->
                         KindOrder[((a[1] * b.bx + a[2] * b.by) % Len(KindOrder)) + 1]],
                      0, 255) : a \in {<<1, 0>>, <<1, 1>>, <<3, 1>>, <<0, 1>>}}
      marked == {[bx |-> 0, by |-> 0], [bx |-> 1, by |-> 1],
                 [bx |-> (ImageWidth \div BlockSize) - 2,
                  by |-> (ImageHeight \div BlockSize) - 2],
                 [bx |-> (ImageWidth \div BlockSize) - 1, by |-> 1]}
      few == {Drawn(f, 0, 255) : f \in [marked -> {"none", "endingRight", "fork"}]}
  IN uniform \cup levels \cup mixed \cup few

\* images of QualW x QualH bytes: every black-and-white one, and some greys
GreyImages ==
  {[i \in 1..(QualW * QualH) |-> v] : v \in {1, 127, 128, 254}}
  \cup {[i \in 1..(QualW * QualH) |-> (29 * i) % 256],
        [i \in 1..(QualW * QualH) |-> 255 - ((i * i) % 7)]}

QualityImages ==
  {[data |-> d, width |-> QualW, height |-> QualH] :
     d \in [1..(QualW * QualH) -> {0, 255}] \cup GreyImages}

\* ------------------------------------------------------------- environment
OpenOutcomes == {"ok", "access", "fail"}

BaseEnv ==
  [present |-> TRUE, product |-> "U20", open |-> "ok", hasIface |-> TRUE,
   claimThrows |-> FALSE, hasIn |-> FALSE, hasOut |-> FALSE, hasSerial |-> FALSE,
   minQuality |-> 0, elapsed |-> FALSE, quality |-> 100, plain |-> FALSE]

\* what usb.getDeviceList() and the opened device offer to one connect()
ConnectEnvs ==
  {[BaseEnv EXCEPT !.present = FALSE, !.open = "fail"] : x \in limits.presence \ {TRUE}}
  \cup {[BaseEnv EXCEPT !.product = pn, !.open = o] :
           pn \in limits.products, o \in limits.opening \ {"ok"}}
  \cup {[BaseEnv EXCEPT !.product = pn, !.hasIface = FALSE] : pn \in limits.products}
  \cup {[BaseEnv EXCEPT !.product = pn, !.claimThrows = ct, !.hasIn = hi, !.hasOut = ho] :
           pn \in limits.products, ct \in BOOLEAN, hi \in BOOLEAN, ho \in BOOLEAN}

\* what the code reads after a suspension: the clock, the serial-number
\* index of the descriptor, and the quality of the pixels just read
ConnResumeEnvs ==
  {[BaseEnv EXCEPT !.hasSerial = hs, !.elapsed = el] : hs \in BOOLEAN, el \in BOOLEAN}

PollEnvs == {[BaseEnv EXCEPT !.elapsed = el] : el \in BOOLEAN}

ImageEnvs ==
  {[BaseEnv EXCEPT !.quality = q, !.plain = pl] :
     q \in limits.qualities, pl \in limits.plains}

\* the bulk reads of this capture that brought nothing so far
Stalls(c) == c.loc.attempts - (c.loc.bytesRead \div BulkRequest)

\* the concurrent session: every caller, a narrow choice of options
SessionLimits ==
  [callers |-> Callers, products |-> {"U20"}, minQualities |-> {0},
   qualities |-> {30, 100}, plains |-> {FALSE}, maxPolls |-> MaxPolls, maxOpens |-> MaxOpens,
   maxStalls |-> MaxStalls, maxChunks |-> MaxChunks, throwsOn |-> {},
   presence |-> BOOLEAN, opening |-> OpenOutcomes]

\* one caller, a wide choice of options.minQuality and of image qualities
CaptureLimits ==
  [callers |-> {1}, products |-> Products, minQualities |-> {0, 40, 50, 100},
   qualities |-> {0, 30, 45, 100}, plains |-> {FALSE}, maxPolls |-> MaxPolls, maxOpens |-> MaxOpens,
   maxStalls |-> MaxStalls, maxChunks |-> MaxChunks, throwsOn |-> {},
   presence |-> BOOLEAN, opening |-> OpenOutcomes]

\* every caller, each loop at its shortest
LiveLimits ==
  [callers |-> Callers, products |-> {"U20"}, minQualities |-> {0},
   qualities |-> {100}, plains |-> {FALSE}, maxPolls |-> 1, maxOpens |-> 1,
   maxStalls |-> 1, maxChunks |-> 1, throwsOn |-> {},
   presence |-> BOOLEAN, opening |-> OpenOutcomes]

\* one caller whose bulk loop may use all its attempts and whose control loop
\* may read the whole image
ImageLimits ==
  [callers |-> {1}, products |-> {"U20"}, minQualities |-> {0},
   qualities |-> {30, 100}, plains |-> BOOLEAN, maxPolls |-> 1, maxOpens |-> 1,
   maxStalls |-> BulkMaxAttempts,
   maxChunks |-> (ImageSize + ChunkSize - 1) \div ChunkSize, throwsOn |-> {},
   presence |-> BOOLEAN, opening |-> OpenOutcomes]

\* every caller; the device is attached and opens
ConnectLimits ==
  [callers |-> Callers, products |-> Products, minQualities |-> {0},
   qualities |-> {100}, plains |-> {FALSE}, maxPolls |-> MaxPolls, maxOpens |-> MaxOpens,
   maxStalls |-> MaxStalls, maxChunks |-> MaxChunks, throwsOn |-> {},
   presence |-> {TRUE}, opening |-> {"ok"}]

\* the lifecycle events of capture()
CaptureEvents == {"captureStart", "fingerDetected", "captureComplete", "captureError"}

\* one caller; no handler throws, or the handlers registered for one of the
\* events throw
EventLimits ==
  {[callers |-> {1}, products |-> {"U20"}, minQualities |-> {0, 50},
    qualities |-> {30, 100}, plains |-> {FALSE}, maxPolls |-> MaxPolls,
    maxOpens |-> MaxOpens, maxStalls |-> MaxStalls, maxChunks |-> MaxChunks,
    throwsOn |-> S, presence |-> BOOLEAN, opening |-> OpenOutcomes] : S \in {{}} \cup {{ev} : ev \in CaptureEvents}}

\* ----------------------------------------------------------------- actions
Apply(p, c, disconnecting) ==
  /\ p \in limits.callers
  /\ c.usb.opens <= limits.maxOpens
  /\ scanner' = c.sc
  /\ usb' = c.usb
  /\ pc' = [pc EXCEPT ![p] = c.pc]
  /\ op' = [op EXCEPT ![p] = c.op]
  /\ res' = [res EXCEPT ![p] = c.res]
  /\ loc' = [q \in Callers |->
               IF q = p THEN c.loc
               ELSE IF disconnecting THEN [loc[q] EXCEPT !.clean = FALSE] ELSE loc[q]]
  /\ connOK' = c.connOK
  /\ UNCHANGED <<limits, matchVars, codecVars, imageVars>>

Calling(p, name) == [CfgOf(p) EXCEPT !.op = name]

ConnectCall(p) ==
  /\ pc[p] = "idle"
  /\ \E e \in ConnectEnvs : Apply(p, connect(Calling(p, "connect"), e), FALSE)

ConnInitDone(p) ==
  /\ pc[p] = "conn_init"
  /\ \E ok \in BOOLEAN, e \in ConnResumeEnvs :
       Apply(p, IF ok THEN initLed(CfgOf(p), e) ELSE connectResult(CfgOf(p), e), FALSE)

ConnLedDone(p) ==
  /\ pc[p] = "conn_led"
  /\ \E e \in ConnResumeEnvs : Apply(p, connectResult(CfgOf(p), e), FALSE)

ConnSerialDone(p) ==
  /\ pc[p] = "conn_serial"
  /\ \E e \in ConnResumeEnvs : Apply(p, connectSuccess(CfgOf(p), e), FALSE)

DisconnectCall(p) ==
  /\ pc[p] = "idle"
  /\ \E rt \in BOOLEAN, ct \in BOOLEAN :
       Apply(p, disconnect(Calling(p, "disconnect"), rt, ct), TRUE)

DiscLedDone(p) ==
  /\ pc[p] = "disc_led"
  /\ \E rt \in BOOLEAN, ct \in BOOLEAN :
       Apply(p, DisconnectTeardown(CfgOf(p), rt, ct), TRUE)

GetStatusCall(p) ==
  /\ pc[p] = "idle"
  /\ Apply(p, Finish(Calling(p, "getStatus"), StatusResult(scanner)), FALSE)

CaptureCall(p) ==
  /\ pc[p] = "idle"
  /\ \E e \in ConnectEnvs, mq \in limits.minQualities :
       Apply(p, capture(Calling(p, "capture"), [e EXCEPT !.minQuality = mq]), FALSE)

CapLedOnDone(p) ==
  /\ pc[p] = "cap_ledon"
  /\ \E e \in PollEnvs : Apply(p, fingerLoop(CfgOf(p), e), FALSE)

\* the CHECK_FINGER control transfer completes (lines 398-402)
CapCheckDone(p) ==
  /\ pc[p] = "cap_check"
  /\ \E r \in {"finger", "nofinger", "empty", "error"}, e \in ImageEnvs :
       Apply(p, CASE r = "finger" -> answered(CfgOf(p), TRUE, e)
                  [] r = "nofinger" -> answered(CfgOf(p), FALSE, e)
                  [] r = "empty" -> simulated(CfgOf(p), e)
                  [] OTHER -> checkFingerFallback(CfgOf(p), e), FALSE)

\* sendCommand(CHECK_FINGER) completes (lines 406-407)
CapChkCmdDone(p) ==
  /\ pc[p] = "cap_chk_cmd"
  /\ \E ok \in BOOLEAN, e \in ImageEnvs :
       Apply(p, IF ok /\ scanner.inEndpoint # Null
                THEN Suspend(CfgOf(p), "cap_chk_read")
                ELSE simulated(CfgOf(p), e), FALSE)

\* readFromEndpoint(64) completes (lines 407-413)
CapChkReadDone(p) ==
  /\ pc[p] = "cap_chk_read"
  /\ \E r \in {"one", "other", "empty", "error"}, e \in ImageEnvs :
       Apply(p, CASE r = "one" -> answered(CfgOf(p), TRUE, e)
                  [] r = "other" -> answered(CfgOf(p), FALSE, e)
                  [] OTHER -> simulated(CfgOf(p), e), FALSE)

\* the 100 ms pause ends (line 462)
CapSleepDone(p) ==
  /\ pc[p] = "cap_sleep"
  /\ \E e \in PollEnvs : Apply(p, fingerLoop(CfgOf(p), e), FALSE)

\* the callback of readFromEndpointWithTimeout (lines 625-632) and the loop
\* body around it (lines 536-549)
CapBulkDone(p) ==
  /\ pc[p] = "cap_bulk"
  /\ \E r \in {"data", "empty", "timeout", "error"}, e \in ImageEnvs :
       LET c == CfgOf(p)
           mayStall == Stalls(c) <= limits.maxStalls
       IN IF scanner.inEndpoint = Null
          THEN Apply(p, [c EXCEPT !.pc = "cap_hung"], FALSE)
          ELSE CASE r = "data" ->
                      Apply(p, bulkLoop([c EXCEPT !.loc.bytesRead = @ + BulkRequest], e), FALSE)
                 [] r = "empty" ->
                      mayStall /\ Apply(p, bulkLoop(c, e), FALSE)
                 [] r = "timeout" ->
                      IF c.loc.bytesRead > 0
                      THEN Apply(p, bulkEnd(c, e), FALSE)
                      ELSE mayStall /\ Apply(p, bulkLoop(c, e), FALSE)
                 [] OTHER -> Apply(p, bulkEnd(c, e), FALSE)

\* the CAPTURE_IMAGE command completes (lines 570-571)
CapCmdDone(p) ==
  /\ pc[p] = "cap_cmd"
  /\ \E ok \in BOOLEAN, e \in ImageEnvs :
       Apply(p, IF ok THEN Sleep(CfgOf(p), "cap_wait500")
                ELSE generateSyntheticFingerprint(CfgOf(p), e), FALSE)

\* the 500 ms pause ends (line 571)
CapWaitDone(p) ==
  /\ pc[p] = "cap_wait500"
  /\ \E e \in ImageEnvs : Apply(p, chunkLoop(CfgOf(p), e), FALSE)

\* a GET_IMAGE chunk completes (lines 587-595)
CapChunkDone(p) ==
  /\ pc[p] = "cap_chunk"
  /\ \E r \in {"data", "empty", "error"}, e \in ImageEnvs :
       LET c == CfgOf(p)
           len == IF ChunkSize < ImageSize - c.loc.bytesRead
                  THEN ChunkSize ELSE ImageSize - c.loc.bytesRead
       IN IF r = "data"
          THEN /\ c.loc.bytesRead \div ChunkSize < limits.maxChunks
               /\ Apply(p, chunkLoop([c EXCEPT !.loc.bytesRead = @ + len], e), FALSE)
          ELSE Apply(p, chunkEnd(c, e), FALSE)

\* the LED_OFF transfer completes, whatever its outcome (lines 312-319)
CapLedOffDone(p) ==
  /\ pc[p] = "cap_ledoff"
  /\ Apply(p, captureDone(CfgOf(p), loc[p].out), FALSE)

\* the caller takes the result; it may call again
Return(p) ==
  /\ pc[p] = "done"
  /\ pc' = [pc EXCEPT ![p] = "idle"]
  /\ op' = [op EXCEPT ![p] = Null]
  /\ loc' = [loc EXCEPT ![p] = NoLoc]
  /\ res' = [res EXCEPT ![p] = NoRes]
  /\ UNCHANGED <<scanner, usb, connOK, limits, matchVars, codecVars, imageVars>>

Init ==
  /\ scanner = NewScanner
  /\ usb = NewUsb
  /\ pc = [p \in Callers |-> "idle"]
  /\ op = [p \in Callers |-> Null]
  /\ loc = [p \in Callers |-> NoLoc]
  /\ res = [p \in Callers |-> NoRes]
  /\ connOK = FALSE
  /\ limits = SessionLimits
  /\ mt1 = OtherArg /\ mt2 = OtherArg /\ mres = NoMatchResult
  /\ CodecIdle
  /\ ImageIdle

Next ==
  \E p \in Callers :
    \/ ConnectCall(p) \/ ConnInitDone(p) \/ ConnLedDone(p) \/ ConnSerialDone(p)
    \/ DisconnectCall(p) \/ DiscLedDone(p)
    \/ GetStatusCall(p)
    \/ CaptureCall(p) \/ CapLedOnDone(p)
    \/ CapCheckDone(p) \/ CapChkCmdDone(p) \/ CapChkReadDone(p) \/ CapSleepDone(p)
    \/ CapBulkDone(p) \/ CapCmdDone(p) \/ CapWaitDone(p) \/ CapChunkDone(p)
    \/ CapLedOffDone(p)
    \/ Return(p)

Spec == Init /\ [][Next]_vars

\* what the event loop does for a caller once its call is under way: the
\* callback of an issued transfer runs, a timer fires
Completes(p) ==
  \/ ConnInitDone(p) \/ ConnLedDone(p) \/ ConnSerialDone(p)
  \/ DiscLedDone(p)
  \/ CapLedOnDone(p)
  \/ CapCheckDone(p) \/ CapChkCmdDone(p) \/ CapChkReadDone(p) \/ CapSleepDone(p)
  \/ CapBulkDone(p) \/ CapCmdDone(p) \/ CapWaitDone(p) \/ CapChunkDone(p)
  \/ CapLedOffDone(p)

\* every USB transfer eventually completes or errors and every timer fires;
\* callers are free to call or not
InitLive ==
  /\ scanner = NewScanner
  /\ usb = NewUsb
  /\ pc = [p \in Callers |-> "idle"]
  /\ op = [p \in Callers |-> Null]
  /\ loc = [p \in Callers |-> NoLoc]
  /\ res = [p \in Callers |-> NoRes]
  /\ connOK = FALSE
  /\ limits = LiveLimits
  /\ mt1 = OtherArg /\ mt2 = OtherArg /\ mres = NoMatchResult
  /\ CodecIdle
  /\ ImageIdle

SpecLive == InitLive /\ [][Next]_vars /\ \A p \in Callers : WF_vars(Completes(p))

\* one caller with every option
InitCapture ==
  /\ scanner = NewScanner
  /\ usb = NewUsb
  /\ pc = [p \in Callers |-> "idle"]
  /\ op = [p \in Callers |-> Null]
  /\ loc = [p \in Callers |-> NoLoc]
  /\ res = [p \in Callers |-> NoRes]
  /\ connOK = FALSE
  /\ limits = CaptureLimits
  /\ mt1 = OtherArg /\ mt2 = OtherArg /\ mres = NoMatchResult
  /\ CodecIdle
  /\ ImageIdle

SpecCapture == InitCapture /\ [][Next]_vars

\* --------------------------------------- FingerprintScannerWindows.connect
\* (electron-app/server.js) on the same variables: scanner holds the fields
\* of the FingerprintScannerWindows object, usb the state of the device

\* what findByIds, open(), the descriptor and claim() offer to one connect()
WinEnvs ==
  {[BaseEnv EXCEPT !.present = pr, !.open = o, !.hasSerial = hs, !.claimThrows = ct,
                   !.hasIface = st] :
     pr \in BOOLEAN, o \in OpenOutcomes, hs \in BOOLEAN, ct \in BOOLEAN, st \in BOOLEAN}

\* server.js lines 346-356: the catch block closes the device and throws
winFailed(c) ==
  LET c1 == IF c.sc.device # Null
            THEN [c EXCEPT !.sc.device = Null, !.usb.open = FALSE]
            ELSE c
  IN Finish(c1, [Result("error") EXCEPT !.opens = c.loc.opens])

\* server.js lines 339-342
winConnected(c) == Finish(c, [Result("connected") EXCEPT !.opens = c.loc.opens])

\* server.js lines 332-338: after initializeScanner()
winInitialized(c, e) ==
  LET c1 == [c EXCEPT !.sc.isConnected = TRUE]
  IN IF e.hasSerial THEN Suspend(c1, "win_serial") ELSE winConnected(c1)

\* server.js lines 307-330: interface(0), claim(), then initializeScanner()
winClaim(c, e) ==
  IF c.sc.device = Null
  THEN winFailed(c)
  ELSE Suspend([c EXCEPT !.usb.claimed = @ \/ ~e.claimThrows,
                         !.loc.claimFailed = e.claimThrows], "win_init")

\* server.js lines 277-302: findByIds, open(), the string descriptors;
\* e.hasIface stands for a descriptor that names a manufacturer or a product
winOpen(c, e) ==
  IF ~e.present
  THEN winFailed([c EXCEPT !.sc.device = Null])
  ELSE LET c1 == [c EXCEPT !.sc.device = Dev, !.usb.opens = @ + 1, !.loc.opens = @ + 1]
       IN IF e.open # "ok"
          THEN winFailed(c1)
          ELSE LET c2 == [c1 EXCEPT !.usb.open = TRUE]
               IN IF e.hasIface THEN Suspend(c2, "win_desc") ELSE winClaim(c2, e)

\* server.js lines 262-275
winConnect(c, e) ==
  IF c.sc.isConnected THEN Finish(c, Result("already")) ELSE winOpen(c, e)

WinConnectCall(p) ==
  /\ pc[p] = "idle"
  /\ \E e \in WinEnvs : Apply(p, winConnect(Calling(p, "winConnect"), e), FALSE)

\* the string descriptors came back
WinDescDone(p) ==
  /\ pc[p] = "win_desc"
  /\ \E e \in WinEnvs : Apply(p, winClaim(CfgOf(p), e), FALSE)

\* initializeScanner() came back
WinInitDone(p) ==
  /\ pc[p] = "win_init"
  /\ \E e \in WinEnvs : Apply(p, winInitialized(CfgOf(p), e), FALSE)

\* the serial number came back
WinSerialDone(p) ==
  /\ pc[p] = "win_serial"
  /\ Apply(p, winConnected(CfgOf(p)), FALSE)

InitWin ==
  /\ scanner = NewScanner
  /\ usb = NewUsb
  /\ pc = [p \in Callers |-> "idle"]
  /\ op = [p \in Callers |-> Null]
  /\ loc = [p \in Callers |-> NoLoc]
  /\ res = [p \in Callers |-> NoRes]
  /\ connOK = FALSE
  /\ limits = SessionLimits
  /\ mt1 = OtherArg /\ mt2 = OtherArg /\ mres = NoMatchResult
  /\ CodecIdle
  /\ ImageIdle

NextWin ==
  \E p \in Callers :
    \/ WinConnectCall(p) \/ WinDescDone(p) \/ WinInitDone(p) \/ WinSerialDone(p)
    \/ Return(p)

SpecWin == InitWin /\ [][NextWin]_vars

\* ------------------------------------------------- the local demo service
\* local-service/service.js: the requests are the callers and the variable
\* scanner holds scannerState
scannerState == [connected |-> FALSE, deviceInfo |-> Null, capturing |-> FALSE]

DemoDevice == "Hamster Plus (Demo Mode)"

\* the qualities 75 + Math.floor(Math.random() * 20) of line 75
DemoQualities == 75..94

connectScanner(sc) == [sc EXCEPT !.connected = TRUE, !.deviceInfo = DemoDevice]

\* GET /scanner/status
serviceStatus(c) ==
  LET sc == IF ~c.sc.connected THEN connectScanner(c.sc) ELSE c.sc
  IN Finish([c EXCEPT !.sc = sc],
            [Result("status") EXCEPT !.connected = sc.connected,
                                     !.capturing = sc.capturing,
                                     !.info = sc.deviceInfo])

\* POST /scanner/connect
serviceConnect(c) ==
  Finish([c EXCEPT !.sc = connectScanner(c.sc)],
         [Result("connected") EXCEPT !.info = DemoDevice])

\* captureFingerprint up to the timer of line 71
captureFingerprint(c) == Suspend([c EXCEPT !.sc.capturing = TRUE], "svc_timer")

\* the timer of captureFingerprint fires and the request is answered
captureTimer(c, quality) ==
  Finish([c EXCEPT !.sc.capturing = FALSE], [Result("ok") EXCEPT !.quality = quality])

ServiceStatus(p) ==
  /\ pc[p] = "idle"
  /\ Apply(p, serviceStatus(Calling(p, "status")), FALSE)

ServiceConnect(p) ==
  /\ pc[p] = "idle"
  /\ Apply(p, serviceConnect(Calling(p, "connectScanner")), FALSE)

ServiceCapture(p) ==
  /\ pc[p] = "idle"
  /\ Apply(p, captureFingerprint(Calling(p, "captureFingerprint")), FALSE)

ServiceTimer(p) ==
  /\ pc[p] = "svc_timer"
  /\ \E quality \in DemoQualities : Apply(p, captureTimer(CfgOf(p), quality), FALSE)

\* the service is listening: connectScanner() has run at line 196
InitService ==
  /\ scanner = connectScanner(scannerState)
  /\ usb = NewUsb
  /\ pc = [p \in Callers |-> "idle"]
  /\ op = [p \in Callers |-> Null]
  /\ loc = [p \in Callers |-> NoLoc]
  /\ res = [p \in Callers |-> NoRes]
  /\ connOK = FALSE
  /\ limits = SessionLimits
  /\ mt1 = OtherArg /\ mt2 = OtherArg /\ mres = NoMatchResult
  /\ CodecIdle
  /\ ImageIdle

NextService ==
  \E p \in Callers :
    \/ ServiceStatus(p) \/ ServiceConnect(p) \/ ServiceCapture(p) \/ ServiceTimer(p)
    \/ Return(p)

SpecService == InitService /\ [][NextService]_vars

\* callers that only connect, to a device that is attached and opens
InitConnects ==
  /\ scanner = NewScanner
  /\ usb = NewUsb
  /\ pc = [p \in Callers |-> "idle"]
  /\ op = [p \in Callers |-> Null]
  /\ loc = [p \in Callers |-> NoLoc]
  /\ res = [p \in Callers |-> NoRes]
  /\ connOK = FALSE
  /\ limits = ConnectLimits
  /\ mt1 = OtherArg /\ mt2 = OtherArg /\ mres = NoMatchResult
  /\ CodecIdle
  /\ ImageIdle

NextConnects ==
  \E p \in Callers :
    \/ ConnectCall(p) \/ ConnInitDone(p) \/ ConnLedDone(p) \/ ConnSerialDone(p)
    \/ Return(p)

SpecConnects == InitConnects /\ [][NextConnects]_vars

\* one caller whose event handlers may throw
InitEvents ==
  /\ scanner = NewScanner
  /\ usb = NewUsb
  /\ pc = [p \in Callers |-> "idle"]
  /\ op = [p \in Callers |-> Null]
  /\ loc = [p \in Callers |-> NoLoc]
  /\ res = [p \in Callers |-> NoRes]
  /\ connOK = FALSE
  /\ limits \in EventLimits
  /\ mt1 = OtherArg /\ mt2 = OtherArg /\ mres = NoMatchResult
  /\ CodecIdle
  /\ ImageIdle

SpecEvents == InitEvents /\ [][Next]_vars

\* one caller, the loops of captureImage at their full length
InitImage ==
  /\ scanner = NewScanner
  /\ usb = NewUsb
  /\ pc = [p \in Callers |-> "idle"]
  /\ op = [p \in Callers |-> Null]
  /\ loc = [p \in Callers |-> NoLoc]
  /\ res = [p \in Callers |-> NoRes]
  /\ connOK = FALSE
  /\ limits = ImageLimits
  /\ mt1 = OtherArg /\ mt2 = OtherArg /\ mres = NoMatchResult
  /\ CodecIdle
  /\ ImageIdle

SpecImage == InitImage /\ [][Next]_vars

\* ------------------------------------------------------------------- match
\* match() applied to two arguments drawn from MatchArgs
DoMatch ==
  /\ mres.kind = "none"
  /\ mres' = match(mt1, mt2)
  /\ UNCHANGED <<mt1, mt2, sessionVars, codecVars, imageVars>>

InitMatch ==
  /\ scanner = NewScanner
  /\ usb = NewUsb
  /\ pc = [p \in Callers |-> "idle"]
  /\ op = [p \in Callers |-> Null]
  /\ loc = [p \in Callers |-> NoLoc]
  /\ res = [p \in Callers |-> NoRes]
  /\ connOK = FALSE
  /\ limits = SessionLimits
  /\ mt1 \in MatchArgs
  /\ mt2 \in MatchArgs
  /\ mres = NoMatchResult
  /\ CodecIdle
  /\ ImageIdle

NextMatch == DoMatch

SpecMatch == InitMatch /\ [][NextMatch]_vars

\* ------------------------------------------------------------------- codec
\* no call on the scanner, no match
SessionIdle ==
  /\ scanner = NewScanner
  /\ usb = NewUsb
  /\ pc = [p \in Callers |-> "idle"]
  /\ op = [p \in Callers |-> Null]
  /\ loc = [p \in Callers |-> NoLoc]
  /\ res = [p \in Callers |-> NoRes]
  /\ connOK = FALSE
  /\ limits = SessionLimits

MatchIdle == mt1 = OtherArg /\ mt2 = OtherArg /\ mres = NoMatchResult

\* generateTemplate on the minutiae extractMinutiae handed it (lines 744-767)
Encode ==
  /\ codecPc = "input"
  /\ codecBytes' = generateTemplate(codecIn.minutiae, codecIn.width, codecIn.height,
                                    codecIn.dpi)
  /\ codecPc' = "encoded"
  /\ UNCHANGED <<codecIn, codecOut, sessionVars, matchVars, imageVars>>

\* parseMinutiae on the template (line 861): it returns the minutiae list only
Decode ==
  /\ codecPc = "encoded"
  /\ codecOut' = [minutiae |-> parseMinutiae(codecBytes)]
  /\ codecPc' = "decoded"
  /\ UNCHANGED <<codecIn, codecBytes, sessionVars, matchVars, imageVars>>

InitCodec ==
  /\ SessionIdle
  /\ MatchIdle
  /\ codecIn \in CodecInputs
  /\ codecBytes = <<>>
  /\ codecOut = [minutiae |-> <<>>]
  /\ codecPc = "input"
  /\ ImageIdle

NextCodec == Encode \/ Decode

SpecCodec == InitCodec /\ [][NextCodec]_vars

\* ----------------------------------------------------------------- quality
\* SecuGenScanner.calculateQuality on the image
Quality ==
  /\ ~qOut.coreDone
  /\ qOut' = [qOut EXCEPT !.coreDone = TRUE,
                          !.core = calculateQuality(qImage.data, qImage.width, qImage.height)]
  /\ UNCHANGED <<qImage, xImage, xOut, sessionVars, matchVars, codecVars>>

\* FingerprintScanner.calculateQuality (electron-app) on the image
QualityElectron ==
  /\ ~qOut.electronDone
  /\ qOut' = [qOut EXCEPT !.electronDone = TRUE,
                          !.electron = calculateQualityElectron(qImage.data)]
  /\ UNCHANGED <<qImage, xImage, xOut, sessionVars, matchVars, codecVars>>

InitQuality ==
  /\ SessionIdle
  /\ MatchIdle
  /\ CodecIdle
  /\ qImage \in QualityImages
  /\ qOut = NoQualityOut
  /\ xImage = NoSparseImage
  /\ xOut = NoExtractOut

NextQuality == Quality \/ QualityElectron

SpecQuality == InitQuality /\ [][NextQuality]_vars

\* ---------------------------------------------------------- minutiae spec
\* generateTemplate on the image, once more
Extract ==
  /\ Len(xOut.core) < ExtractCalls
  /\ xOut' = [xOut EXCEPT !.core = Append(@, generateTemplateOf(xImage))]
  /\ UNCHANGED <<xImage, qImage, qOut, sessionVars, matchVars, codecVars>>

\* FingerprintScanner.generateTemplate (electron-app) on the image, once more
ExtractElectron ==
  /\ Len(xOut.electron) < ExtractCalls
  /\ \E draws \in Draws :
       xOut' = [xOut EXCEPT !.electron = Append(@, generateTemplateElectron(xImage, draws))]
  /\ UNCHANGED <<xImage, qImage, qOut, sessionVars, matchVars, codecVars>>

InitMinutiae ==
  /\ SessionIdle
  /\ MatchIdle
  /\ CodecIdle
  /\ qImage = NoImage
  /\ qOut = NoQualityOut
  /\ xImage \in SparseImages
  /\ xOut = NoExtractOut

NextMinutiae == Extract \/ ExtractElectron

SpecMinutiae == InitMinutiae /\ [][NextMinutiae]_vars

\* ================================================================== claims
Returns(p, name) == pc[p] # "done" /\ pc'[p] = "done" /\ op'[p] = name

Calls(p, name) == pc[p] = "idle" /\ op'[p] = name

\* C1: a capture() issued while another capture is in flight (isCapturing true)
\* is rejected at once with 'Capture already in progress': it does not wait,
\* changes neither isCapturing nor anything else of the scanner, and issues no
\* transfer or device call.
C1_RejectedWhileCapturing ==
  [][\A p \in Callers :
       (Calls(p, "capture") /\ scanner.isCapturing)
         => /\ pc'[p] = "done"
            /\ res'[p].kind = "busy"
            /\ scanner' = scanner
            /\ usb' = usb]_vars

\* C2: after a successful connect(), with no disconnect() step since that
\* connect() was called, a further connect() returns at once with
\* alreadyConnected true and the current device info, and neither opens the
\* device nor claims the interface again.
C2_ConnectIdempotent ==
  [][\A p \in Callers :
       (Calls(p, "connect") /\ connOK)
         => /\ pc'[p] = "done"
            /\ res'[p].kind = "already"
            /\ res'[p].info = scanner.productName
            /\ scanner' = scanner
            /\ usb' = usb]_vars

C2_Witness ==
  \E p \in Callers :
    pc[p] = "done" /\ op[p] = "connect" /\ res[p].kind = "already" /\ res[p].afterOK

\* C3: while a capture is in flight no step releases the interface, closes the
\* device or clears the device and endpoint references: disconnect() waits for
\* the capture to finish.
C3_DisconnectWaitsForCapture ==
  [][scanner.isCapturing
       => /\ scanner'.device = scanner.device
          /\ scanner'.interface = scanner.interface
          /\ scanner'.inEndpoint = scanner.inEndpoint
          /\ usb'.open = usb.open
          /\ usb'.claimed = usb.claimed]_vars

\* C4: disconnect() never throws, whatever the state it is called in and
\* whatever the LED-off command, the interface release or the device close
\* raise; when it returns isConnected is false, the device, interface and
\* endpoint references are null and getStatus().deviceInfo is null; called
\* again in that state it changes nothing.
Cleared(sc) ==
  /\ ~sc.isConnected
  /\ sc.device = Null /\ sc.interface = Null
  /\ sc.inEndpoint = Null /\ sc.outEndpoint = Null

C5_ErrorReturnsToConnected ==
  [][\A p \in Callers :
       (Returns(p, "capture") /\ res'[p].kind \in {"nofinger", "lowq"})
         => /\ ~scanner'.isCapturing
            /\ scanner'.isConnected
            /\ scanner'.device # Null
            /\ usb'.open]_vars

\* C6: every capture() that passed the isCapturing guard ends right after its
\* LED-off command: the command is sent after the last finger-check or image
\* transfer and before the call returns or throws, on every path.
C6_LedOffOnEveryExit ==
  [][\A p \in Callers :
       (Returns(p, "capture") /\ res'[p].kind \in {"ok", "nofinger", "lowq"})
         => pc[p] = "cap_ledoff"]_vars

\* C7: a connect() that fails leaves the session Disconnected as disconnect()
\* does: isConnected false, the device reference null, getStatus() reporting
\* connected false and deviceInfo null.
C7_FailedConnectDisconnected ==
  [][\A p \in Callers :
       (Returns(p, "connect")
          /\ res'[p].kind \in {"DEVICE_NOT_FOUND", "PERMISSION_DENIED", "CONNECTION_ERROR"})
         => /\ ~scanner'.isConnected
            /\ scanner'.device = Null
            /\ ~getStatus(scanner').connected
            /\ getStatus(scanner').deviceInfo.isNull]_vars

\* C8: getStatus() returns at once, changes nothing of the scanner or the
\* device and issues no transfer (no caller's position changes but its own),
\* in every state; the connected and capturing it reports are isConnected and
\* isCapturing at the call.
C8_GetStatusPure ==
  [][\A p \in Callers :
       Calls(p, "getStatus")
         => /\ pc'[p] = "done"
            /\ scanner' = scanner
            /\ usb' = usb
            /\ \A q \in Callers \ {p} : pc'[q] = pc[q]
            /\ res'[p].connected = scanner.isConnected
            /\ res'[p].capturing = scanner.isCapturing]_vars

\* getStatus() has answered connected and capturing while a capture is in flight
C8_Witness ==
  \E p \in Callers, q \in Callers :
    /\ pc[p] = "done" /\ op[p] = "getStatus" /\ res[p].connected /\ res[p].capturing
    /\ op[q] = "capture" /\ pc[q] \in {"cap_check", "cap_bulk", "cap_chunk"}

\* C9: match returns a result and never throws, for any two arguments; when an
\* argument cannot be decoded as a template (it is no Buffer or string, or its
\* bytes are not a header, the records the header counts and the digest of
\* both) the result is match false, score 0 with an error.
IsTemplate(bytes) ==
  /\ Len(bytes) >= HeaderSize + DigestSize
  /\ SubSeq(bytes, 1, 7) = <<70, 77, 82, 0, 32, 50, 48>>
  /\ Len(bytes) = HeaderSize + 6 * bytes[8] + DigestSize
  /\ SubSeq(bytes, Len(bytes) - DigestSize + 1, Len(bytes))
       = Digest(SubSeq(bytes, 1, Len(bytes) - DigestSize))

Decodes(t) == ToBuffer(t).ok /\ IsTemplate(ToBuffer(t).bytes)

C9_MatchTotal ==
  mres.kind # "none"
    => /\ mres.kind = "result"
       /\ (~Decodes(mt1) \/ ~Decodes(mt2))
            => (~mres.match /\ mres.score = 0 /\ mres.error # Null)

\* C10: the score match returns is in 0..100: the matched count it reports
\* never exceeds the total it reports, min(|A|,|B|).
C10_ScoreInRange ==
  mres.kind = "result"
    => /\ mres.score \in 0..100
       /\ mres.matchedMinutiae <= mres.totalMinutiae

\* C11: for a well-formed template A with at least one minutia, match(A, A)
\* returns match true and score 100 (A given as a Buffer or as base64 text).
C11_SelfMatch ==
  (/\ mres.kind = "result"
   /\ Decodes(mt1) /\ Decodes(mt2)
   /\ ToBuffer(mt1).bytes = ToBuffer(mt2).bytes
   /\ ToBuffer(mt1).bytes[8] >= 1)
    => (mres.match /\ mres.score = 100 /\ mres.error = Null)

\* a template of two minutiae has been matched against itself
C11_Witness ==
  /\ mres.kind = "result" /\ mres.match /\ mres.score = 100
  /\ mt1 = mt2 /\ Decodes(mt1) /\ ToBuffer(mt1).bytes[8] = 2

\* C12: for every minutiae list of length 0..128 with x, y in 0..65535 and
\* angle, type in 0..255, decoding the encoded template returns the same
\* minutiae in the same order and the same width, height and dpi.
C12_RoundTrip ==
  codecPc = "decoded"
    => /\ codecOut.minutiae = codecIn.minutiae
       /\ {"width", "height", "dpi"} \subseteq DOMAIN codecOut
       /\ codecOut.width = codecIn.width
       /\ codecOut.height = codecIn.height
       /\ codecOut.dpi = codecIn.dpi

\* the part of the round trip the decoder performs: the minutiae come back
\* unchanged and in order, and the header bytes 8..13 hold the dimensions
RoundTripMinutiae ==
  codecPc = "decoded"
    => /\ codecOut.minutiae = codecIn.minutiae
       /\ ReadUInt16BE(codecBytes, 8) = codecIn.width
       /\ ReadUInt16BE(codecBytes, 10) = codecIn.height
       /\ ReadUInt16BE(codecBytes, 12) = codecIn.dpi

\* C13: a blob whose length is not 14 + 6 * count + 16 for the count its header
\* declares is rejected, never decoded to fewer records than the header
\* declares: through match the result is match false, score 0 with an error.
LengthInconsistent(t) ==
  /\ ToBuffer(t).ok
  /\ LET b == ToBuffer(t).bytes
     IN Len(b) < 8 \/ Len(b) # HeaderSize + 6 * b[8] + DigestSize

C13_LengthChecked ==
  (mres.kind = "result" /\ (LengthInconsistent(mt1) \/ LengthInconsistent(mt2)))
    => (~mres.match /\ mres.score = 0 /\ mres.error # Null)

\* C14: a template with one byte of its minutiae region changed fails to decode
\* (digest mismatch): matching it yields score 0 with an error, never a score
\* computed from the changed minutiae.
AlteredInRecords(t) ==
  /\ ToBuffer(t).ok
  /\ LET b == ToBuffer(t).bytes
     IN \E w \in WellFormed :
          /\ Len(w) = Len(b)
          /\ \E k \in (HeaderSize + 1)..(Len(w) - DigestSize) :
               /\ b[k] # w[k]
               /\ \A j \in 1..Len(w) : j # k => b[j] = w[j]

C14_DigestChecked ==
  (mres.kind = "result" /\ (AlteredInRecords(mt1) \/ AlteredInRecords(mt2)))
    => (~mres.match /\ mres.score = 0 /\ mres.error # Null)

\* C15: calculateQuality returns an integer in 0..100 for every image of
\* width x height bytes, the all-zero and the all-255 image included (both
\* implementations).
C15_QualityInRange ==
  /\ qOut.coreDone => qOut.core \in 0..100
  /\ qOut.electronDone => qOut.electron \in 0..100

\* both implementations have scored the all-255 image
C15_Witness ==
  /\ qOut.coreDone /\ qOut.electronDone
  /\ \A i \in 1..Len(qImage.data) : qImage.data[i] = 255
  /\ Len(qImage.data) = qImage.width * qImage.height
  /\ qOut.core = 0 /\ qOut.electron = 30

\* C16: two calls of generateTemplate on the same image give the same ordered
\* minutiae and the same template bytes, in both implementations
C16_Deterministic ==
  /\ Len(xOut.core) >= 2 => xOut.core[1] = xOut.core[2]
  /\ Len(xOut.electron) >= 2 => xOut.electron[1] = xOut.electron[2]

\* the core implementation alone is deterministic
CoreDeterministic == \A i, j \in 1..Len(xOut.core) : xOut.core[i] = xOut.core[j]

\* the results of all the calls made so far, of either implementation
ExtractResults ==
  {xOut.core[i].minutiae : i \in 1..Len(xOut.core)}
  \cup {xOut.electron[i].minutiae : i \in 1..Len(xOut.electron)}

\* the pixel of the image at column x of row y is a ridge pixel
Ridge(x, y) ==
  /\ x >= 0 /\ x < xImage.width /\ y >= 0 /\ y < xImage.height
  /\ Pixel(xImage, y * xImage.width + x) < 128

\* 1 for a ridge ending at (x, y), 2 for a bifurcation, 0 for neither
KindAt(x, y) ==
  LET around == {q \in ((x - 1)..(x + 1)) \X ((y - 1)..(y + 1)) :
                   q # <<x, y>> /\ Ridge(q[1], q[2])}
  IN CASE Ridge(x, y) /\ Cardinality(around) = 1 -> 1
       [] Ridge(x, y) /\ Cardinality(around) = 3 -> 2
       [] OTHER -> 0

\* the centres of the 16x16 blocks inside the one-block border of the image
InnerCentres ==
  {<<16 * bx + 8, 16 * by + 8>> : bx \in 1..((xImage.width \div 16) - 2),
                                  by \in 1..((xImage.height \div 16) - 2)}

\* block-scan order: rows top to bottom, blocks left to right within a row
ScannedBefore(p, q) == p[2] < q[2] \/ (p[2] = q[2] /\ p[1] < q[1])

\* C17: every result holds at most 128 minutiae, each at the centre of a block
\* that is a ridge ending (type 1) or a bifurcation (type 2), in block-scan
\* order, and a candidate block is left out only behind the 128th minutia
C17_First128Candidates ==
  \A r \in ExtractResults :
    /\ Len(r) <= 128
    /\ \A i \in 1..Len(r) :
         /\ <<r[i].x, r[i].y>> \in InnerCentres
         /\ KindAt(r[i].x, r[i].y) # 0
         /\ r[i].type = KindAt(r[i].x, r[i].y)
    /\ \A i, j \in 1..Len(r) :
         i < j => ScannedBefore(<<r[i].x, r[i].y>>, <<r[j].x, r[j].y>>)
    /\ \A p \in InnerCentres :
         KindAt(p[1], p[2]) # 0 =>
           \/ \E i \in 1..Len(r) : <<r[i].x, r[i].y>> = p
           \/ Len(r) = 128 /\ ScannedBefore(<<r[128].x, r[128].y>>, p)

\* the core extraction returned 128 minutiae of both types and left candidates
\* out, from an image that also has blocks that are no candidates
C17_Witness ==
  /\ Len(xOut.core) >= 1
  /\ LET r == xOut.core[1].minutiae
     IN /\ Len(r) = 128
        /\ {r[i].type : i \in 1..Len(r)} = {1, 2}
        /\ \E p \in InnerCentres :
             KindAt(p[1], p[2]) # 0 /\ ScannedBefore(<<r[128].x, r[128].y>>, p)
        /\ \E p \in InnerCentres :
             KindAt(p[1], p[2]) = 0 /\ ScannedBefore(p, <<r[128].x, r[128].y>>)

\* the minutiae of the two templates matched
MinutiaeA == parseMinutiae(ToBuffer(mt1).bytes)
MinutiaeB == parseMinutiae(ToBuffer(mt2).bytes)

\* the absolute difference of two numbers
AbsDiff(a, b) == IF a >= b THEN a - b ELSE b - a

\* the squared Euclidean distance of two minutiae
SquaredDistance(a, b) == (a.x - b.x) * (a.x - b.x) + (a.y - b.y) * (a.y - b.y)

\* s is n / d x 100 rounded to the nearest integer, halves upward
IsRoundedPercent(s, n, d) == 2 * s * d <= 200 * n + d /\ 200 * n + d < 2 * (s + 1) * d

\* the result of match on two well-formed templates is the one that a count
\* of `matched` minutiae of A gives
MatchCounts(matched) ==
  (mres.kind = "result" /\ Decodes(mt1) /\ Decodes(mt2))
    => LET smaller == IF Len(MinutiaeA) <= Len(MinutiaeB) THEN Len(MinutiaeA)
                      ELSE Len(MinutiaeB)
       IN /\ mres.error = Null
          /\ mres.matchedMinutiae = matched
          /\ smaller = 0 => mres.score = 0
          /\ smaller > 0 => IsRoundedPercent(mres.score, matched, smaller)
          /\ mres.match <=> mres.score >= 60

C19_LowQualityExactly ==
  \A p \in Callers :
    (pc[p] = "done" /\ res[p].kind \in {"ok", "lowq"})
      => (res[p].kind = "lowq"
            <=> (res[p].quality # NaN /\ res[p].quality < res[p].asked))

\* the quality gate is exact for every positive options.minQuality
LowQualityExactlyAbove0 ==
  \A p \in Callers :
    (pc[p] = "done" /\ res[p].kind \in {"ok", "lowq"} /\ res[p].asked > 0)
      => (res[p].kind = "lowq"
            <=> (res[p].quality # NaN /\ res[p].quality < res[p].asked))

\* where a capture() waits for a transfer of checkFinger, and for one of
\* captureImage
PollWaits == {"cap_check", "cap_chk_cmd", "cap_chk_read"}
ImageWaits == {"cap_bulk", "cap_cmd", "cap_wait500", "cap_chunk", "cap_hung"}

\* caller p's capture() decides on the timeout error in this step
TimesOut(p) ==
  /\ op[p] = "capture"
  /\ loc[p].out # "nofinger"
  /\ \/ pc'[p] = "cap_ledoff" /\ loc'[p].out = "nofinger"
     \/ pc[p] # "cap_ledoff" /\ pc'[p] = "done" /\ res'[p].kind = "nofinger"

\* C20: capture() pauses 100 ms between two polls of checkFinger, goes on to
\* the image at the first poll that reports detected and polls no more, and
\* decides on the timeout error only at the head of the loop with no poll
\* having reported detected and no image transfer issued
C20_PollUntilDetected ==
  [][\A p \in Callers :
       /\ (pc'[p] \in PollWaits /\ pc[p] \notin PollWaits /\ loc'[p].polls > 1)
            => pc[p] = "cap_sleep"
       /\ (pc[p] \in PollWaits /\ pc'[p] # pc[p] /\ pc'[p] \notin PollWaits)
            => \/ pc'[p] = "cap_sleep" /\ ~loc'[p].fingerDetected
               \/ pc'[p] \in ImageWaits /\ loc'[p].fingerDetected
               \/ pc'[p] \in {"cap_ledoff", "done"} /\ ~TimesOut(p)
       /\ pc[p] \in ImageWaits => pc'[p] \notin PollWaits \cup {"cap_sleep"}
       /\ pc'[p] = "cap_sleep" => ~loc'[p].fingerDetected
       /\ TimesOut(p)
            => /\ pc[p] \notin PollWaits \cup ImageWaits
               /\ ~loc[p].fingerDetected
               /\ loc[p].imgSrc = Null /\ loc[p].attempts = 0 /\ loc[p].bytesRead = 0
               /\ loc'[p].imgSrc = Null /\ res'[p].quality = 0]_vars

\* a connected scanner's capture() decided on the timeout error after its
\* second poll, neither poll having reported detected
C20_Witness ==
  \E p \in Callers :
    /\ pc[p] = "cap_ledoff" /\ loc[p].out = "nofinger"
    /\ loc[p].polls = 2 /\ ~loc[p].fingerDetected
    /\ scanner.isConnected

\* where a capture() waits for a transfer or the pause of the control path
ControlWaits == {"cap_cmd", "cap_wait500", "cap_chunk"}

\* what caller p's capture() holds after this step, in its locals or, when it
\* has settled, in what it returned
ImgSrcAfter(p) == IF pc'[p] = "done" THEN res'[p].imgSrc ELSE loc'[p].imgSrc
ImgLenAfter(p) == IF pc'[p] = "done" THEN res'[p].imgLen ELSE loc'[p].imgLen
BulkFullAfter(p) == IF pc'[p] = "done" THEN res'[p].bulkFull ELSE loc'[p].bulkFull
CtrlEnoughAfter(p) == IF pc'[p] = "done" THEN res'[p].ctrlEnough ELSE loc'[p].ctrlEnough

\* captureImage of caller p returns in this step, with an image from src
ImageReturned(p, src) ==
  /\ op[p] = "capture" /\ pc[p] \notin {"done", "cap_ledoff"}
  /\ loc[p].imgSrc = Null
  /\ ImgSrcAfter(p) = src

\* C21: captureImage reads from the bulk endpoint first when there is an IN
\* endpoint, turns to the control transfers only when there is none or the
\* bulk read gave no whole image, and returns a synthetic image only when
\* neither path gave an acceptable one
C21_HardwareBeforeSynthetic ==
  [][\A p \in Callers :
       /\ (pc'[p] = "cap_bulk" /\ pc[p] # "cap_bulk")
            => pc[p] \notin ControlWaits /\ scanner.inEndpoint # Null
       /\ (pc'[p] \in ControlWaits /\ pc[p] \notin ControlWaits)
            => \/ pc[p] = "cap_bulk" /\ ~loc'[p].bulkFull
               \/ pc[p] # "cap_bulk" /\ scanner.inEndpoint = Null
       /\ ImageReturned(p, "bulk") => pc[p] = "cap_bulk" /\ BulkFullAfter(p)
       /\ ImageReturned(p, "control")
            => pc[p] \in ControlWaits /\ ~BulkFullAfter(p) /\ CtrlEnoughAfter(p)
       /\ ImageReturned(p, "synthetic")
            => /\ ~BulkFullAfter(p) /\ ~CtrlEnoughAfter(p)
               /\ pc[p] = "cap_bulk" \/ pc[p] \in ControlWaits \/ scanner.inEndpoint = Null
               /\ pc[p] \in ControlWaits \/ scanner.device = Null]_vars

\* the bulk loop used all its attempts without a whole image and the control
\* loop is now reading
C21_Witness ==
  \E p \in Callers :
    /\ pc[p] = "cap_chunk" /\ loc[p].attempts = BulkMaxAttempts
    /\ ~loc[p].bulkFull /\ scanner.inEndpoint # Null

\* where a call waits for the callback of a USB transfer it issued
TransferWaits ==
  {"conn_init", "conn_led", "conn_serial", "disc_led", "cap_ledon", "cap_check",
   "cap_chk_cmd", "cap_chk_read", "cap_bulk", "cap_cmd", "cap_chunk", "cap_ledoff"}

\* C22: at no time are two USB transfers outstanding on the device: a transfer
\* is issued only after the previous one has completed
C22_OneTransferOutstanding ==
  Cardinality({p \in Callers : pc[p] \in TransferWaits}) <= 1

\* C23: after connect(), the mode is bulk only if an IN endpoint was found
\* and control otherwise, whatever the product and the OUT endpoint
C23_ModeFollowsInEndpoint ==
  scanner.isConnected
    => (scanner.useControlTransfer <=> scanner.inEndpoint = Null)

\* C24: an image read from the hardware that capture() scores is never an
\* all-black or all-white read
C24_PlainReadNotScored ==
  \A p \in Callers :
    (pc[p] = "done" /\ res[p].kind \in {"ok", "lowq"}
       /\ res[p].imgSrc \in {"bulk", "control"})
      => ~res[p].imgPlain

\* C25: a connect() that fails reports DEVICE_NOT_FOUND when no SecuGen device
\* is on the bus, PERMISSION_DENIED when device.open() fails for lack of
\* access, CONNECTION_ERROR for any other failure, and calls device.open() at
\* most once
C25_ErrorCodes ==
  \A p \in Callers :
    (pc[p] = "done" /\ op[p] = "connect" /\ res[p].kind # "already")
      => /\ res[p].opens <= 1
         /\ res[p].kind = "DEVICE_NOT_FOUND" <=> ~res[p].found
         /\ res[p].kind = "PERMISSION_DENIED"
              <=> (res[p].found /\ res[p].opened = "access")
         /\ res[p].kind = "CONNECTION_ERROR"
              => (res[p].found /\ res[p].opened # "access")

\* the error codes are as stated for a connect() that starts with no device
\* left over from an earlier call
ErrorCodesFromClean ==
  [][\A p \in Callers :
       (Calls(p, "connect") /\ scanner.device = Null /\ pc'[p] = "done"
          /\ res'[p].kind # "already")
         => /\ res'[p].opens <= 1
            /\ res'[p].kind = "DEVICE_NOT_FOUND" <=> ~res'[p].found
            /\ res'[p].kind = "PERMISSION_DENIED"
                 <=> (res'[p].found /\ res'[p].opened = "access")
            /\ res'[p].kind = "CONNECTION_ERROR"
                 => (res'[p].found /\ res'[p].opened # "access")]_vars

\* C26: a connect() whose interface.claim() throws still returns success with
\* isConnected true, after the endpoints were read, the transfer mode was
\* selected and initializeDevice() ran
C26_ClaimFailureNonFatal ==
  \A p \in Callers :
    (pc[p] = "done" /\ op[p] = "connect" /\ res[p].claimFailed)
      => /\ res[p].kind = "connected"
         /\ scanner.isConnected
         /\ scanner.interface # Null
         /\ scanner.useControlTransfer
              <=> (scanner.outEndpoint = Null \/ scanner.productName = "HAMSTER_PRO")
         /\ res[p].inited

C26_Witness ==
  \E p \in Callers :
    /\ pc[p] = "done" /\ op[p] = "connect"
    /\ res[p].claimFailed /\ res[p].kind = "connected" /\ res[p].inited
    /\ scanner.isConnected /\ ~usb.claimed
    /\ scanner.inEndpoint # Null /\ ~scanner.useControlTransfer

\* C27: a checkFinger() whose command fails on the control transfer and on
\* the endpoint fallback, or brings an empty response, returns detected: true,
\* and capture() goes on to acquire an image
C27_NoAnswerMeansDetected ==
  \A p \in Callers :
    /\ (pc[p] \notin {"idle", "done"} /\ loc[p].noAnswer)
         => (loc[p].fingerDetected /\ pc[p] \in ImageWaits \cup {"cap_ledoff"})
    /\ (pc[p] = "done" /\ res[p].noAnswer) => res[p].imgSrc # Null

C27_Witness ==
  \E p \in Callers :
    /\ pc[p] = "cap_bulk" /\ loc[p].noAnswer /\ loc[p].fingerDetected
    /\ scanner.inEndpoint # Null

\* C28: every capture() call under way eventually settles, also when a
\* disconnect() runs meanwhile
C28_CaptureSettles ==
  \A p \in Callers :
    (op[p] = "capture" /\ pc[p] \notin {"idle", "done"}) ~> (pc[p] = "done")

\* a capture() that no disconnect() overtakes in its bulk read settles
SettlesUnlessHung ==
  \A p \in Callers :
    (op[p] = "capture" /\ pc[p] \notin {"idle", "done"})
      ~> (pc[p] \in {"done", "cap_hung"})

\* C29: within one captureImage() the bulk loop issues at most 50 reads, one
\* per pass, and the control loop goes round again only after a read that
\* made bytesRead larger while the image is still incomplete
C29_LoopsBounded ==
  [][\A p \in Callers :
       /\ (pc[p] = "cap_bulk" /\ pc'[p] = "cap_bulk")
            => /\ loc'[p].attempts = loc[p].attempts + 1
               /\ loc'[p].attempts <= BulkMaxAttempts
       /\ (pc[p] # "cap_bulk" /\ pc'[p] = "cap_bulk") => loc'[p].attempts = 1
       /\ (pc[p] = "cap_chunk" /\ pc'[p] = "cap_chunk")
            => /\ loc'[p].bytesRead > loc[p].bytesRead
               /\ loc'[p].bytesRead < ImageSize]_vars

C29_Witness ==
  \E p \in Callers :
    /\ pc[p] = "cap_bulk" /\ loc[p].attempts = BulkMaxAttempts
    /\ loc[p].bytesRead < ImageSize

\* C30: the image captureImage() returns, read by bulk transfer, read by
\* control transfer or synthetic, has exactly width x height bytes
C30_ImageSizeExact ==
  \A p \in Callers :
    /\ (pc[p] = "cap_ledoff" /\ loc[p].imgSrc # Null) => loc[p].imgLen = ImageSize
    /\ (pc[p] = "done" /\ res[p].imgSrc # Null) => res[p].imgLen = ImageSize

\* the bulk and the synthetic image have exactly width x height bytes
BulkAndSyntheticSizeExact ==
  \A p \in Callers :
    (pc[p] = "done" /\ res[p].imgSrc \in {"bulk", "synthetic"})
      => res[p].imgLen = ImageSize

\* the mode connect() selected does not change while connected
ModeFixedWhileConnected ==
  [][(scanner.isConnected /\ scanner'.isConnected)
       => scanner'.useControlTransfer = scanner.useControlTransfer]_vars

\* C31: the template generateTemplate returns is a 14-byte header with the
\* minutiae count n in byte 7 and width, height and dpi big-endian in bytes
\* 8..13, then n records of 6 bytes (x and y big-endian, angle, type) in the
\* order of extraction, then 16 digest bytes over header and records: 30 + 6n
\* bytes with n <= 128
C31_TemplateLayout ==
  \A k \in 1..Len(xOut.core) :
    LET m == xOut.core[k].minutiae
        t == xOut.core[k].template
        n == Len(m)
    IN /\ n <= 128
       /\ Len(t) = 30 + 6 * n
       /\ t[8] = n
       /\ t[9] * 256 + t[10] = xImage.width
       /\ t[11] * 256 + t[12] = xImage.height
       /\ t[13] * 256 + t[14] = ImageDpi
       /\ \A i \in 1..Len(t) : t[i] \in 0..255
       /\ \A i \in 1..n :
            LET o == 14 + 6 * (i - 1)
            IN /\ t[o + 1] * 256 + t[o + 2] = m[i].x
               /\ t[o + 3] * 256 + t[o + 4] = m[i].y
               /\ t[o + 5] = m[i].angle
               /\ t[o + 6] = m[i].type
       /\ SubSeq(t, 15 + 6 * n, 30 + 6 * n) = Digest(SubSeq(t, 1, 14 + 6 * n))

\* a template of several records of both types, one of them with y above
\* 255, from an image wider than 255 pixels
C31_Witness ==
  /\ Len(xOut.core) >= 1
  /\ LET m == xOut.core[1].minutiae
     IN /\ Len(m) >= 2
        /\ Len(xOut.core[1].template) = 30 + 6 * Len(m)
        /\ \E i \in 1..Len(m) : m[i].y > 255 /\ m[i].x < 256
        /\ {m[i].type : i \in 1..Len(m)} = {1, 2}
        /\ xImage.width > 255

\* C32: match does not take a matched minutia of B out of the running: when
\* one minutia of B is the partner of several minutiae of A, every one of
\* them is counted
C32_PartnersNotConsumed ==
  (mres.kind = "result" /\ Decodes(mt1) /\ Decodes(mt2))
    => \A j \in 1..Len(MinutiaeB) :
         mres.matchedMinutiae >=
           Cardinality({i \in 1..Len(MinutiaeA) :
                          /\ SquaredDistance(MinutiaeA[i], MinutiaeB[j]) < 20 * 20
                          /\ AbsDiff(MinutiaeA[i].angle, MinutiaeB[j].angle) < 30
                          /\ MinutiaeA[i].type = MinutiaeB[j].type})

\* two minutiae of A were matched against the one minutia of B: the matched
\* count is above the size of B
C32_Witness ==
  /\ mres.kind = "result" /\ Decodes(mt1) /\ Decodes(mt2)
  /\ Len(MinutiaeA) = 2 /\ Len(MinutiaeB) = 1
  /\ MinutiaeA[1] # MinutiaeA[2]
  /\ mres.matchedMinutiae = 2
  /\ mres.matchedMinutiae > Len(MinutiaeB)

\* the event sequences of a capture() that has ended
EndedSequences ==
  {<<"captureStart", "captureError">>,
   <<"captureStart", "captureComplete">>,
   <<"captureStart", "fingerDetected", "captureError">>,
   <<"captureStart", "fingerDetected", "captureComplete">>}

\* the event sequences of a capture() under way
RunningSequences == {<<>>, <<"captureStart">>, <<"captureStart", "fingerDetected">>}

\* the events of a capture() are in order
EventsInOrder ==
  \A p \in Callers :
    /\ (op[p] = "capture" /\ pc[p] \notin {"idle", "done"})
         => /\ loc[p].events \in RunningSequences
            /\ (Len(loc[p].events) = 2) => loc[p].fingerDetected
    /\ (op[p] = "capture" /\ pc[p] = "done")
         => IF res[p].kind \in {"busy", "connect_failed"}
            THEN res[p].events = <<>>
            ELSE res[p].events \in EndedSequences

\* C33: a capture() that passed the isCapturing guard emits captureStart, then
\* fingerDetected if a finger was detected, then exactly one of
\* captureComplete and captureError; a capture() rejected as already in
\* progress emits nothing
C33_EventsInOrder == EventsInOrder

\* with handlers that return, the events are in order
EventsInOrderQuiet == (limits.throwsOn = {}) => EventsInOrder

\* the callers whose connect() went past the guard of line 101
Connecting ==
  {p \in Callers : /\ op[p] = "connect"
                   /\ \/ pc[p] \in {"conn_init", "conn_led", "conn_serial"}
                      \/ pc[p] = "done" /\ res[p].kind # "already"}

\* C34: however connect() calls interleave on a scanner that starts
\* disconnected with a device that opens, device.open() is called once: one
\* call connects and every other call returns alreadyConnected
C34_OpenedOnce ==
  /\ usb.opens <= 1
  /\ scanner.isConnected <=> usb.opens = 1
  /\ Cardinality(Connecting) <= 1
  /\ \A p \in Callers :
       (op[p] = "connect" /\ pc[p] = "done")
         => /\ res[p].kind \in {"connected", "already"}
            /\ res[p].opens = (IF res[p].kind = "connected" THEN 1 ELSE 0)
            /\ usb.opens = 1

\* a connect() returned alreadyConnected while the connect() that opened the
\* device still waits for the device to initialise
C34_Witness ==
  \E p, q \in Callers :
    /\ op[p] = "connect" /\ pc[p] = "conn_init"
    /\ op[q] = "connect" /\ pc[q] = "done" /\ res[q].kind = "already"
    /\ usb.opens = 1

\* the places at which a FingerprintScannerWindows.connect() waits
WinWaits == {"win_desc", "win_init", "win_serial"}

\* C35: a FingerprintScannerWindows.connect() that starts while another one is
\* still in progress does not call device.open() again
C35_WinOpenedOnce ==
  [][\A p \in Callers :
       (/\ pc[p] = "idle" /\ op'[p] = "winConnect"
        /\ \E q \in Callers \ {p} : op[q] = "winConnect" /\ pc[q] \in WinWaits)
         => usb'.opens = usb.opens]_vars

\* a connect() that starts when the scanner is connected does not open the
\* device
WinOpensWhenDisconnected ==
  [][\A p \in Callers :
       (pc[p] = "idle" /\ op'[p] = "winConnect" /\ scanner.isConnected)
         => (usb'.opens = usb.opens /\ res'[p].kind = "already")]_vars

\* the minQuality a capture() called with options.minQuality = asked works with
EffectiveMinQuality(asked) == IF asked = 0 THEN DefaultMinQuality ELSE asked

\* C36: the result of a successful capture() carries an integer quality with
\* minQuality <= quality <= 100, whether the image was read by bulk transfer,
\* read by control transfer, short of width x height bytes or not, or synthetic
C36_QualityInRange ==
  \A p \in Callers :
    (pc[p] = "done" /\ op[p] = "capture" /\ res[p].kind = "ok")
      => /\ res[p].quality # NaN
         /\ EffectiveMinQuality(res[p].asked) <= res[p].quality
         /\ res[p].quality <= 100

\* the quality of a successful capture() of a whole image is in range
QualityInRangeWholeImage ==
  \A p \in Callers :
    (pc[p] = "done" /\ op[p] = "capture" /\ res[p].kind = "ok"
       /\ res[p].imgLen = ImageSize)
      => /\ res[p].quality # NaN
         /\ EffectiveMinQuality(res[p].asked) <= res[p].quality
         /\ res[p].quality <= 100

\* the positions at which a connect() waits for a transfer
ConnectWaits == {"conn_init", "conn_led", "conn_serial"}

\* the errors connect() returns
ConnectErrors == {"DEVICE_NOT_FOUND", "PERMISSION_DENIED", "CONNECTION_ERROR"}

\* caller p's capture() runs a segment of the connect() it awaits at line 432
CaptureConnects(p) ==
  /\ op'[p] = "capture"
  /\ \/ pc[p] = "idle" /\ ~scanner.isConnected
     \/ pc[p] \in ConnectWaits /\ pc'[p] # pc[p]

ServiceCapturing == {q \in Callers : op[q] = "captureFingerprint" /\ pc[q] = "svc_timer"}

\* C38: GET /scanner/status of the demo service reports capturing true
\* whenever a POST /scanner/capture is still in progress, overlapping
\* captures included
C38_ServiceCapturingFlag ==
  [][\A p \in Callers :
       (Calls(p, "status") /\ ServiceCapturing # {})
         => res'[p].capturing]_vars

\* the flag is false when no capture is in progress, and the status reports
\* the flag as it is
ServiceFlagOnlyWhileCapturing ==
  /\ scanner.capturing => ServiceCapturing # {}
  /\ \A p \in Callers :
       (op[p] = "status" /\ pc[p] = "done" /\ res[p].capturing)
         => res[p].connected

\* a status request has reported capturing true while a capture was in progress
ServiceStatusWhileCapturing ==
  \E p \in Callers, q \in Callers :
    /\ op[p] = "status" /\ pc[p] = "done" /\ res[p].capturing
    /\ q \in ServiceCapturing

====
